---- MODULE Spec2Model ----
(***************************************************************************)
(* Model of git-pack's multi-pack index (MIDX) integrity verification,      *)
(* git-pack/src/multi_index/verify.rs: File::verify_integrity_fast,         *)
(* File::verify_integrity and File::verify_integrity_inner.                 *)
(*                                                                          *)
(* One behaviour is one call of verify_integrity or verify_integrity_fast   *)
(* on one MIDX file.  The MIDX header, fan table, oid array and trailer are *)
(* drawn in Init; the pack-id table, the sibling files on disk, the content *)
(* of the per-pack indices and the bundle verifier's result are immutable   *)
(* inputs that the code reads once, and they are drawn at the step that     *)
(* reads them.  should_interrupt is an atomic flag another thread may set   *)
(* at any time.                                                             *)
(*                                                                          *)
(* A second specification, SidebandSpec, models git-packetline's async      *)
(* sideband reader, git-packetline/src/read/sidebands/async_io.rs:          *)
(* WithSidebands over one StreamingPeekableIter.  One behaviour is a        *)
(* sequence of readers constructed over the same parent, each polled,       *)
(* consumed from, reset and dropped by its caller.                          *)
(***************************************************************************)
EXTENDS Integers, Sequences, FiniteSets, TLC

(***************************************************************************)
(* Bounds of the model.                                                     *)
(***************************************************************************)
\* largest num_objects of a MIDX
MaxObjects == 3
\* largest num_indices of a MIDX (index_names().len())
MaxIndices == 2
\* length of self.fan: one counter per first byte of an oid, 256 in the
\* file format, scaled down
FanLen == 3

\* an oid is identified by its first byte
Oids == 0 .. (FanLen - 1)
\* hash values: the code only compares them for equality
Hashes == { 0, 1 }
PackIds == 0 .. (MaxIndices - 1)
\* Option::None wherever the code has an Option, and a field that is not set
None == 0 - 1

\* the first byte of an oid; oids compare as integers, so the first byte is
\* monotone in the oid as it is for the lexicographic order of byte strings
FirstByte(oid) == oid

VARIABLES
    \* ---- the MIDX file (multi_index::File) ----
    num_objects,        \* self.num_objects
    num_indices,        \* self.num_indices = self.index_names.len()
    fan,                \* self.fan, 1-based sequence of FanLen counters
    oids,               \* the oid table, oids[i + 1] = oid_at_index(i)
    stored_checksum,    \* self.checksum(), the trailer
    data_hash,          \* hash of self.data without the trailer, None until computed
    entry_pack_ids,     \* pack-id column of the offset table, read in the oid order phase
    \* ---- the environment ----
    should_interrupt,   \* the AtomicBool
    \* ---- the call ----
    pc,                 \* position in verify_integrity_inner
    deep_check,         \* the deep_check argument
    actual_index_checksum,
    pack_ids_and_offsets,       \* the Entry Plan: sequence of <<pack_id, entry_index>>
    pack_ids_slice,             \* the not yet visited suffix of the plan
    pack_id,                    \* loop variable of the per-pack loop
    entries_to_check,           \* multi_index_entries_to_check
    entry_cursor,               \* position of the entry loop in entries_to_check
    total_objects_checked,
    pack_traverse_statistics,
    result,                     \* what the public function returned
    \* ---- history ----
    phases,                     \* log of the phases entered, in order
    events,                     \* log of opens, entry checks, polls and bundle verifications
    \* ---- the packet-line iterator wrapped by the sideband reader ----
    parent_is_done,     \* StreamingPeekableIter::is_done
    parent_stopped_at,  \* StreamingPeekableIter::stopped_at
    parent_delimiters,  \* StreamingPeekableIter::delimiters
    parent_buf,         \* StreamingPeekableIter::buf: the line read last, length prefix included
    lines_read,         \* number of lines and errors taken from the transport so far
    arrived,            \* the transport holds the bytes of the next line
    \* ---- the sideband reader (WithSidebands) ----
    reader,             \* "none", "alive", "dropped" or "panicked"
    state,              \* "Idle" or "ReadLine"
    parent,             \* State::Idle { parent } is Some
    parent_inactive,    \* State::ReadLine { parent_inactive } is Some
    read_line,          \* State::ReadLine { read_line }: "none", "created" or "pending"
    handle_progress,    \* a handler is installed
    pos,
    cap,
    \* ---- the caller of the reader ----
    call,               \* the poll function being run: "none", "fill_buf", "read", "read_line"
    last,               \* what the last call returned
    \* ---- history of the reader ----
    lines,              \* the lines poll_fill_buf obtained from the parent, in order
    delivered,          \* the bytes handed to the caller and consumed, in order
    progress,           \* the calls of the progress handler, in order
    reset_calls,        \* calls of parent.reset() made by drop
    requested,          \* delimiters of the reader's last reset_with call, {} before it
    wrapped             \* a consume wrapped around in pos + amt

vars == << num_objects, num_indices, fan, oids, stored_checksum, data_hash,
           entry_pack_ids, should_interrupt, pc, deep_check,
           actual_index_checksum, pack_ids_and_offsets, pack_ids_slice,
           pack_id, entries_to_check, entry_cursor, total_objects_checked,
           pack_traverse_statistics, result, phases, events,
           parent_is_done, parent_stopped_at, parent_delimiters, parent_buf,
           lines_read, arrived, reader, state, parent, parent_inactive,
           read_line, handle_progress, pos, cap, call, last,
           lines, delivered, progress, reset_calls, wrapped,
           requested >>

\* everything of the sideband reader and its parent
sideband == << parent_is_done, parent_stopped_at, parent_delimiters, parent_buf,
               lines_read, arrived, reader, state, parent, parent_inactive,
               read_line, handle_progress, pos, cap, call, last,
               lines, delivered, progress, reset_calls, wrapped,
           requested >>

history == << phases, events >>
header == << num_objects, num_indices, fan, oids, stored_checksum >>
midx == << header, data_hash >>
locals == << actual_index_checksum, pack_ids_and_offsets, pack_ids_slice,
             pack_id, entries_to_check, entry_cursor, total_objects_checked,
             pack_traverse_statistics >>

(***************************************************************************)
(* Accessors of multi_index::File.                                          *)
(***************************************************************************)
oid_at_index(i) == oids[i + 1]

\* the pack-id column: entry_pack_ids[i + 1] is the pack id of
\* pack_id_and_pack_offset_at_index(i)
pack_id_at_index(ids, i) == ids[i + 1]

\* the offset column.  The code only compares offsets for equality, so the
\* MIDX side is fixed, one distinct offset per entry, and the per-pack index
\* side is what varies: the same offset, or one that drifted by 16 bytes
pack_offset_at_index(i) == 12 + 32 * i
IndexOffsets(i) == { pack_offset_at_index(i), pack_offset_at_index(i) + 16 }

(***************************************************************************)
(* Results.                                                                 *)
(***************************************************************************)
Running == [status |-> "running", variant |-> "", error |-> "", index |-> None,
            id |-> None, expected |-> None, actual |-> None, checksum |-> None]

\* Err(crate::index::traverse::Error::<variant>(integrity::Error::<error>))
Err(variant, error, index, id, expected, actual) ==
    [status |-> "err", variant |-> variant, error |-> error, index |-> index,
     id |-> id, expected |-> expected, actual |-> actual, checksum |-> None]

Processor(error) == Err("Processor", error, None, None, None, None)

\* Ok(integrity::Outcome { actual_index_checksum, .. })
OkOutcome(checksum) ==
    [status |-> "ok", variant |-> "", error |-> "", index |-> None,
     id |-> None, expected |-> None, actual |-> None, checksum |-> checksum]

\* a panic: assert_eq!, expect() or unreachable!()
Panic(what) ==
    [status |-> "panic", variant |-> "", error |-> what, index |-> None,
     id |-> None, expected |-> None, actual |-> None, checksum |-> None]

(***************************************************************************)
(* crate::verify::fan: the first index whose counter is larger than the     *)
(* following one, None if the table never decreases.                        *)
(***************************************************************************)
RECURSIVE fan_from(_, _)
fan_from(data, i) ==
    IF i + 1 >= Len(data) THEN None
    ELSE IF data[i + 1] > data[i + 2] THEN i
    ELSE fan_from(data, i + 1)

verify_fan(data) == fan_from(data, 0)

(***************************************************************************)
(* File::verify_checksum: the hash of the data without the trailer is       *)
(* compared with the trailer; the hashing loop gives up when it sees        *)
(* should_interrupt set.                                                    *)
(***************************************************************************)
verify_checksum(interrupted, actual) ==
    IF interrupted THEN [ok |-> FALSE, why |-> "Interrupted", id |-> None]
    ELSE IF actual # stored_checksum
         THEN [ok |-> FALSE, why |-> "Mismatch", id |-> None]
         ELSE [ok |-> TRUE, why |-> "", id |-> actual]

(***************************************************************************)
(* The oid order loop: compares neighbours and collects the Entry Plan.     *)
(* ids is the pack-id column it reads.                                      *)
(***************************************************************************)
\* mutant: equal neighbours pass (rhs.cmp(lhs) == Less is the only failure)
RECURSIVE order_loop_EqualPasses(_, _, _)
order_loop_EqualPasses(ids, entry_index, acc) ==
    IF entry_index >= num_objects - 1
    THEN [ok |-> TRUE, index |-> None,
          plan |-> Append(acc, << pack_id_at_index(ids, num_objects - 1), num_objects - 1 >>)]
    ELSE IF oid_at_index(entry_index + 1) < oid_at_index(entry_index)
         THEN [ok |-> FALSE, index |-> entry_index, plan |-> << >>]
         ELSE order_loop_EqualPasses(ids, entry_index + 1,
                         Append(acc, << pack_id_at_index(ids, entry_index), entry_index >>))

RECURSIVE order_loop(_, _, _)
order_loop(ids, entry_index, acc) ==
    IF entry_index >= num_objects - 1
    THEN [ok |-> TRUE, index |-> None,
          plan |-> Append(acc, << pack_id_at_index(ids, num_objects - 1), num_objects - 1 >>)]
    ELSE IF ~(oid_at_index(entry_index + 1) > oid_at_index(entry_index))
         THEN [ok |-> FALSE, index |-> entry_index, plan |-> << >>]
         ELSE order_loop(ids, entry_index + 1,
                         Append(acc, << pack_id_at_index(ids, entry_index), entry_index >>))

(***************************************************************************)
(* pack_ids_and_offsets.sort_by(|l, r| l.0.cmp(&r.0)): a stable sort by the *)
(* first component, here by insertion.                                      *)
(***************************************************************************)
\* mutant: an entry is inserted before the entries of its own pack id
RECURSIVE insert_sorted_Unstable(_, _)
insert_sorted_Unstable(sorted, e) ==
    IF sorted = << >> THEN << e >>
    ELSE IF sorted[Len(sorted)][1] < e[1] THEN Append(sorted, e)
    ELSE Append(insert_sorted_Unstable(SubSeq(sorted, 1, Len(sorted) - 1), e),
                sorted[Len(sorted)])

RECURSIVE insert_sorted(_, _)
insert_sorted(sorted, e) ==
    IF sorted = << >> THEN << e >>
    ELSE IF sorted[Len(sorted)][1] <= e[1] THEN Append(sorted, e)
    ELSE Append(insert_sorted(SubSeq(sorted, 1, Len(sorted) - 1), e), sorted[Len(sorted)])

RECURSIVE sort_by_pack_id(_)
sort_by_pack_id(s) ==
    IF s = << >> THEN << >>
    ELSE insert_sorted(sort_by_pack_id(SubSeq(s, 1, Len(s) - 1)), s[Len(s)])

(***************************************************************************)
(* slice::partition_point(|e| e.0 == id): binary search for the end of the  *)
(* prefix that satisfies the predicate.                                     *)
(***************************************************************************)
RECURSIVE partition_search(_, _, _, _)
partition_search(slice, id, left, right) ==
    IF left >= right THEN left
    ELSE LET mid == left + ((right - left) \div 2)
         IN  IF slice[mid + 1][1] = id
             THEN partition_search(slice, id, mid + 1, right)
             ELSE partition_search(slice, id, left, mid)

partition_point(slice, id) == partition_search(slice, id, 0, Len(slice))

(***************************************************************************)
(* Events of the per-pack phase, kept as a log.                             *)
(***************************************************************************)
\* Bundle::at (what = "bundle") or index::File::at (what = "index") on the
\* sibling of pack p; idx and pack tell whether the .idx and .pack exist
OpenEvent(p, what, idx, pack) ==
    [ev |-> "open", pack |-> p, what |-> what, idx |-> idx, pck |-> pack,
     entry |-> None, id |-> None, expected |-> None, actual |-> None, flag |-> FALSE]

\* one iteration of the entry loop: the MIDX offset (expected) and the
\* offset index.lookup(oid) leads to (actual, None if the oid is absent)
CheckEvent(p, entry, id, expected, actual) ==
    [ev |-> "check", pack |-> p, what |-> "", idx |-> TRUE, pck |-> TRUE,
     entry |-> entry, id |-> id, expected |-> expected, actual |-> actual, flag |-> FALSE]

\* should_interrupt.load() and the value it returned
PollEvent(p, flag) ==
    [ev |-> "poll", pack |-> p, what |-> "", idx |-> TRUE, pck |-> TRUE,
     entry |-> None, id |-> None, expected |-> None, actual |-> None, flag |-> flag]

\* bundle.verify_integrity(..) returned; what is "Ok" or the error variant
VerifyEvent(p, what) ==
    [ev |-> "verify", pack |-> p, what |-> what, idx |-> TRUE, pck |-> TRUE,
     entry |-> None, id |-> None, expected |-> None, actual |-> None, flag |-> FALSE]

\* the traversal statistics the bundle of pack p yields
traverse_statistics(p) == [bundle |-> p]

\* the error variants of crate::index::traverse::Error
TraverseErrors == { "Processor", "VerifyChecksum", "Tree", "TreeTraversal", "PackDecode",
                    "PackMismatch", "PackObjectMismatch", "Crc32Mismatch", "Interrupted" }

(***************************************************************************)
(* The sideband reader, git-packetline/src/read/sidebands/async_io.rs:      *)
(* WithSidebands over a StreamingPeekableIter (the parent).  The lines of   *)
(* the transport are inputs read once each; a line is drawn when the        *)
(* parent's read of it completes.                                           *)
(***************************************************************************)
\* largest number of lines and errors the transport yields before it only
\* yields flush lines
MaxReads == 2
\* largest number of payload bytes after the band byte of a data line
MaxPayload == 2

\* length of the hexadecimal length prefix of a packet line
U16_HEX_BYTES == 4
\* const ENCODED_BAND in poll_fill_buf
ENCODED_BAND == 1
\* usize::MAX, scaled down: larger than any window and any sum of a window
\* position and a length of the model
UsizeMax == 15
\* a byte that is no UTF-8 text
NonUtf8 == 255
\* first bytes of a data line: the three bands and a value that is no band
BandBytes == 1 .. 4

\* a payload of n text bytes, all different
TextPayload(n) == [i \in 1 .. n |-> 64 + i]
\* the payloads of band-1 lines: empty, or of the largest length
Payloads == { TextPayload(0), TextPayload(MaxPayload) }

\* PacketLine and the two error layers of ReadLineResult
DataLine(d) == [kind |-> "Data", data |-> d]
Flush == [kind |-> "Flush", data |-> << >>]
Delim == [kind |-> "Delim", data |-> << >>]
IoError == [kind |-> "IoError", data |-> << >>]
DecodeError == [kind |-> "DecodeError", data |-> << >>]
\* the Data lines of the transport: a band-1 line for each payload and one
\* that is no text, and a line with text for each other first byte
DataLines == { DataLine(<< 1 >> \o p) : p \in Payloads \cup { << NonUtf8 >> } }
                 \cup { DataLine(<< b >> \o TextPayload(MaxPayload)) : b \in BandBytes }
\* what one completed read of the parent can find on the transport
Transport == DataLines \cup { Flush, Delim, IoError, DecodeError }

\* the bytes of a line in the parent's buffer: length prefix, then the data
hex_prefix == [i \in 1 .. U16_HEX_BYTES |-> 48]
line_buf(line) == hex_prefix \o line.data
\* &buf[range] with range = from..to; an empty range is an empty slice.
\* parent_buf holds the line read last only: a range that reaches past it
\* reads what the parent's buffer holds there, written as the byte 0
slice(buf, from, to) ==
    [i \in 1 .. (to - from) |-> IF from + i <= Len(buf) THEN buf[from + i] ELSE 0]
min(a, b) == IF a < b THEN a ELSE b

\* std::str::from_utf8(bytes).is_ok()
is_utf8(bytes) == \A i \in 1 .. Len(bytes) : bytes[i] # NonUtf8

\* PacketLine::decode_band: the band of a data line and its payload
decode_band(line) ==
    IF line.kind # "Data" \/ line.data[1] \notin 1 .. 3
    THEN [ok |-> FALSE, band |-> 0, d |-> << >>]
    ELSE [ok |-> TRUE, band |-> line.data[1], d |-> Tail(line.data)]

\* what a call of the reader returned: for a poll function Pending or
\* Ready, with Ok(bytes or count), Err(io::Error) or a panic
Ret(op, poll, kind, error, n) ==
    [op |-> op, poll |-> poll, kind |-> kind, error |-> error, n |-> n]
NoReturn == Ret("none", "none", "", "", 0)

\* a parent iterator that no reader wraps
ParentAlone ==
    /\ parent_is_done = FALSE
    /\ parent_stopped_at = "none"
    /\ parent_delimiters = { "Flush" }
    /\ parent_buf = << >>
    /\ lines_read = 0
    /\ arrived = FALSE
    /\ reader = "none"
    /\ state = "Idle"
    /\ parent = FALSE
    /\ parent_inactive = FALSE
    /\ read_line = "none"
    /\ handle_progress = FALSE
    /\ pos = 0
    /\ cap = 0
    /\ call = "none"
    /\ last = NoReturn
    /\ lines = << >>
    /\ delivered = << >>
    /\ progress = << >>
    /\ reset_calls = 0
    /\ wrapped = FALSE
    /\ requested = { }

(***************************************************************************)
(* Initial states: a MIDX file, no call made yet.                           *)
(***************************************************************************)
Init ==
    /\ num_objects \in 0 .. MaxObjects
    /\ num_indices \in 1 .. MaxIndices
    /\ fan \in [1 .. FanLen -> 0 .. MaxObjects]
    /\ oids \in [1 .. num_objects -> Oids]
    /\ stored_checksum = 0     \* the trailer is fixed and the hash of the data varies
    /\ data_hash = None
    /\ entry_pack_ids = << >>
    /\ should_interrupt = FALSE
    /\ pc = "idle"
    /\ deep_check = FALSE
    /\ actual_index_checksum = None
    /\ pack_ids_and_offsets = << >>
    /\ pack_ids_slice = << >>
    /\ pack_id = 0
    /\ entries_to_check = << >>
    /\ entry_cursor = 0
    /\ total_objects_checked = 0
    /\ pack_traverse_statistics = << >>
    /\ result = Running
    /\ phases = << >>
    /\ events = << >>
    /\ ParentAlone

(***************************************************************************)
(* The two public entry points.                                             *)
(***************************************************************************)
\* verify_integrity_fast maps the inner result: a Processor error is
\* unwrapped, any other variant is unreachable!(), an outcome keeps its
\* checksum and drops the statistics
fast_map(res) ==
    IF res.status = "err"
    THEN IF res.variant = "Processor"
         THEN [res EXCEPT !.variant = "Integrity"]
         ELSE Panic("unreachable")
    ELSE res

\* return from verify_integrity_inner through the public function
Return(res) ==
    /\ result' = IF deep_check THEN res ELSE fast_map(res)
    /\ pc' = "done"

verify_integrity ==
    /\ pc = "idle"
    /\ deep_check' = TRUE
    /\ pc' = "checksum"
    /\ UNCHANGED << midx, entry_pack_ids, should_interrupt, locals, result, history >>
    /\ UNCHANGED sideband

verify_integrity_fast ==
    /\ pc = "idle"
    /\ deep_check' = FALSE
    /\ pc' = "checksum"
    /\ UNCHANGED << midx, entry_pack_ids, should_interrupt, locals, result, history >>
    /\ UNCHANGED sideband

\* another thread sets the flag
SetInterrupt ==
    /\ pc \notin { "idle", "done" }
    /\ ~should_interrupt
    /\ should_interrupt' = TRUE
    /\ UNCHANGED << midx, entry_pack_ids, pc, deep_check, locals, result, history >>
    /\ UNCHANGED sideband

(***************************************************************************)
(* verify_integrity_inner, phase by phase.                                  *)
(***************************************************************************)
\* mutant: a mismatch of the trailer is not treated as an error
ChecksumPhase_MismatchIgnored ==
    /\ pc = "checksum"
    /\ phases' = Append(phases, "checksum")
    /\ \E seen \in { FALSE, should_interrupt }, hash \in Hashes :
         /\ data_hash' = IF seen THEN None ELSE hash
         /\ IF ~seen
            THEN /\ actual_index_checksum' = hash
                 /\ pc' = "fan"
                 /\ UNCHANGED result
            ELSE /\ Return(Processor("MultiIndexChecksum"))
                 /\ UNCHANGED actual_index_checksum
    /\ UNCHANGED << header, entry_pack_ids, should_interrupt, deep_check,
                    pack_ids_and_offsets, pack_ids_slice, pack_id, entries_to_check,
                    entry_cursor, total_objects_checked, pack_traverse_statistics, events >>
    /\ UNCHANGED sideband

ChecksumPhase ==
    /\ pc = "checksum"
    /\ phases' = Append(phases, "checksum")
    /\ \E seen \in { FALSE, should_interrupt }, hash \in Hashes :
         LET r == verify_checksum(seen, hash)
         IN  /\ data_hash' = IF seen THEN None ELSE hash
             /\ IF r.ok
                THEN /\ actual_index_checksum' = r.id
                     /\ pc' = "fan"
                     /\ UNCHANGED result
                ELSE /\ Return(Processor("MultiIndexChecksum"))
                     /\ UNCHANGED actual_index_checksum
    /\ UNCHANGED << header, entry_pack_ids, should_interrupt, deep_check,
                    pack_ids_and_offsets, pack_ids_slice, pack_id, entries_to_check,
                    entry_cursor, total_objects_checked, pack_traverse_statistics, events >>
    /\ UNCHANGED sideband

\* mutant: the emptiness check is made before the fan table is looked at
FanPhase_EmptyFirst ==
    /\ pc = "fan"
    /\ phases' = Append(phases, "fan")
    /\ IF num_objects = 0
       THEN Return(Processor("Empty"))
       ELSE LET first_invalid == verify_fan(fan)
            IN  IF first_invalid # None
                THEN Return(Err("Processor", "Fan", first_invalid, None, None, None))
                ELSE pc' = "empty" /\ UNCHANGED result
    /\ UNCHANGED << midx, entry_pack_ids, should_interrupt, deep_check, locals, events >>
    /\ UNCHANGED sideband

\* mutant: the index reported is that of the larger counter's successor
FanPhase_OffByOne ==
    /\ pc = "fan"
    /\ phases' = Append(phases, "fan")
    /\ LET first_invalid == verify_fan(fan)
       IN  IF first_invalid # None
           THEN Return(Err("Processor", "Fan", first_invalid + 1, None, None, None))
           ELSE pc' = "empty" /\ UNCHANGED result
    /\ UNCHANGED << midx, entry_pack_ids, should_interrupt, deep_check, locals, events >>
    /\ UNCHANGED sideband

\* mutant: the fan table is not checked
FanPhase_Skipped ==
    /\ pc = "fan"
    /\ phases' = Append(phases, "fan")
    /\ pc' = "empty"
    /\ UNCHANGED result
    /\ UNCHANGED << midx, entry_pack_ids, should_interrupt, deep_check, locals, events >>
    /\ UNCHANGED sideband

FanPhase ==
    /\ pc = "fan"
    /\ phases' = Append(phases, "fan")
    /\ LET first_invalid == verify_fan(fan)
       IN  IF first_invalid # None
           THEN Return(Err("Processor", "Fan", first_invalid, None, None, None))
           ELSE pc' = "empty" /\ UNCHANGED result
    /\ UNCHANGED << midx, entry_pack_ids, should_interrupt, deep_check, locals, events >>
    /\ UNCHANGED sideband

EmptyPhase ==
    /\ pc = "empty"
    /\ phases' = Append(phases, "empty")
    /\ IF num_objects = 0
       THEN Return(Processor("Empty"))
       ELSE pc' = "order" /\ UNCHANGED result
    /\ UNCHANGED << midx, entry_pack_ids, should_interrupt, deep_check, locals, events >>
    /\ UNCHANGED sideband

\* mutant: the loop over index_names ends as soon as the plan is used up
loop_head_StopsWhenPlanUsedUp(next_pack_id) ==
    /\ pack_id' = next_pack_id
    /\ pc' = IF next_pack_id < num_indices /\ (next_pack_id = 0 \/ pack_ids_slice # << >>)
             THEN "open" ELSE "assert"

\* the per-pack loop is entered, or left when index_names is exhausted
loop_head(next_pack_id) ==
    /\ pack_id' = next_pack_id
    /\ pc' = IF next_pack_id < num_indices THEN "open" ELSE "assert"

\* the pack-id columns a MIDX of num_objects entries can hold.  The oid
\* comparisons do not read the column, so when they fail one column stands
\* for all of them
pack_id_columns ==
    LET all == [1 .. num_objects -> PackIds]
        any == CHOOSE ids \in all : TRUE
    IN  IF order_loop(any, 0, << >>).ok THEN all ELSE { any }

OrderPhase ==
    /\ pc = "order"
    /\ phases' = Append(phases, "order")
    /\ \E ids \in pack_id_columns :
         LET r == order_loop(ids, 0, << >>)
         IN  IF r.ok
             THEN /\ entry_pack_ids' = ids
                  /\ pack_ids_and_offsets' = sort_by_pack_id(r.plan)
                  /\ pack_ids_slice' = sort_by_pack_id(r.plan)
                  /\ loop_head(0)
                  /\ UNCHANGED result
             ELSE /\ Return(Err("Processor", "OutOfOrder", r.index, None, None, None))
                  /\ UNCHANGED << entry_pack_ids, pack_ids_and_offsets, pack_ids_slice, pack_id >>
    /\ UNCHANGED << midx, should_interrupt, deep_check, actual_index_checksum,
                    entries_to_check, entry_cursor, total_objects_checked,
                    pack_traverse_statistics, events >>
    /\ UNCHANGED sideband

\* the entry loop is left: the next stop is the poll of should_interrupt
entries_done(entries, n) == IF n >= Len(entries) THEN "poll" ELSE "entries"

\* mutant: the fast path opens the bundle as the deep path does
OpenPack_FastNeedsPack ==
    /\ pc = "open"
    /\ phases' = IF pack_id = 0 THEN Append(phases, "per_pack") ELSE phases
    /\ \E idx_there \in BOOLEAN, pack_there \in BOOLEAN :
         LET what == IF deep_check THEN "bundle" ELSE "index"
             opened == idx_there /\ pack_there
             slice_end == partition_point(pack_ids_slice, pack_id)
         IN  /\ events' = Append(events, OpenEvent(pack_id, what, idx_there, pack_there))
             /\ IF opened
                THEN /\ entries_to_check' = SubSeq(pack_ids_slice, 1, slice_end)
                     /\ pack_ids_slice' = SubSeq(pack_ids_slice, slice_end + 1, Len(pack_ids_slice))
                     /\ entry_cursor' = 0
                     /\ pc' = entries_done(SubSeq(pack_ids_slice, 1, slice_end), 0)
                     /\ UNCHANGED result
                ELSE /\ Return(Processor("BundleInit"))
                     /\ UNCHANGED << entries_to_check, pack_ids_slice, entry_cursor >>
    /\ UNCHANGED << midx, entry_pack_ids, should_interrupt, deep_check,
                    actual_index_checksum, pack_ids_and_offsets, pack_id,
                    total_objects_checked, pack_traverse_statistics >>
    /\ UNCHANGED sideband

\* top of one iteration of the per-pack loop: the sibling index (fast) or
\* bundle (deep) is opened, and the entries of this pack are sliced off the plan
OpenPack ==
    /\ pc = "open"
    /\ phases' = IF pack_id = 0 THEN Append(phases, "per_pack") ELSE phases
    /\ \E idx_there \in BOOLEAN, pack_there \in BOOLEAN :
         LET what == IF deep_check THEN "bundle" ELSE "index"
             opened == IF deep_check THEN idx_there /\ pack_there ELSE idx_there
             slice_end == partition_point(pack_ids_slice, pack_id)
         IN  /\ events' = Append(events, OpenEvent(pack_id, what, idx_there, pack_there))
             /\ IF opened
                THEN /\ entries_to_check' = SubSeq(pack_ids_slice, 1, slice_end)
                     /\ pack_ids_slice' = SubSeq(pack_ids_slice, slice_end + 1, Len(pack_ids_slice))
                     /\ entry_cursor' = 0
                     /\ pc' = entries_done(SubSeq(pack_ids_slice, 1, slice_end), 0)
                     /\ UNCHANGED result
                ELSE /\ Return(Processor("BundleInit"))
                     /\ UNCHANGED << entries_to_check, pack_ids_slice, entry_cursor >>
    /\ UNCHANGED << midx, entry_pack_ids, should_interrupt, deep_check,
                    actual_index_checksum, pack_ids_and_offsets, pack_id,
                    total_objects_checked, pack_traverse_statistics >>
    /\ UNCHANGED sideband

\* mutant: PackOffsetMismatch carries the two offsets the wrong way round
CheckEntry_OffsetsSwapped ==
    /\ pc = "entries"
    /\ UNCHANGED phases
    /\ LET entry_id == entries_to_check[entry_cursor + 1][2]
           oid == oid_at_index(entry_id)
           expected_pack_offset == pack_offset_at_index(entry_id)
       IN  \E found \in { None } \cup IndexOffsets(entry_id) :
             /\ events' = Append(events, CheckEvent(pack_id, entry_id, oid,
                                                    expected_pack_offset, found))
             /\ IF found = None
                THEN /\ Return(Err("Processor", "OidNotFound", None, oid, None, None))
                     /\ UNCHANGED entry_cursor
                ELSE IF found # expected_pack_offset
                     THEN /\ Return(Err("Processor", "PackOffsetMismatch", None, oid,
                                        found, expected_pack_offset))
                          /\ UNCHANGED entry_cursor
                     ELSE /\ entry_cursor' = entry_cursor + 1
                          /\ pc' = entries_done(entries_to_check, entry_cursor + 1)
                          /\ UNCHANGED result
    /\ UNCHANGED << midx, entry_pack_ids, should_interrupt, deep_check,
                    actual_index_checksum, pack_ids_and_offsets, pack_ids_slice, pack_id,
                    entries_to_check, total_objects_checked, pack_traverse_statistics >>
    /\ UNCHANGED sideband

\* one iteration of the loop over multi_index_entries_to_check
CheckEntry ==
    /\ pc = "entries"
    /\ UNCHANGED phases
    /\ LET entry_id == entries_to_check[entry_cursor + 1][2]
           oid == oid_at_index(entry_id)
           expected_pack_offset == pack_offset_at_index(entry_id)
       IN  \E found \in { None } \cup IndexOffsets(entry_id) :
             /\ events' = Append(events, CheckEvent(pack_id, entry_id, oid,
                                                    expected_pack_offset, found))
             /\ IF found = None
                THEN /\ Return(Err("Processor", "OidNotFound", None, oid, None, None))
                     /\ UNCHANGED entry_cursor
                ELSE IF found # expected_pack_offset
                     THEN /\ Return(Err("Processor", "PackOffsetMismatch", None, oid,
                                        expected_pack_offset, found))
                          /\ UNCHANGED entry_cursor
                     ELSE /\ entry_cursor' = entry_cursor + 1
                          /\ pc' = entries_done(entries_to_check, entry_cursor + 1)
                          /\ UNCHANGED result
    /\ UNCHANGED << midx, entry_pack_ids, should_interrupt, deep_check,
                    actual_index_checksum, pack_ids_and_offsets, pack_ids_slice, pack_id,
                    entries_to_check, total_objects_checked, pack_traverse_statistics >>
    /\ UNCHANGED sideband

\* mutant: the flag is loaded and its value is not acted on
PollInterrupt_FlagIgnored ==
    /\ pc = "poll"
    /\ UNCHANGED phases
    /\ events' = Append(events, PollEvent(pack_id, should_interrupt))
    /\ total_objects_checked' = total_objects_checked + Len(entries_to_check)
    /\ IF deep_check
       THEN pc' = "bundle" /\ UNCHANGED pack_id
       ELSE loop_head(pack_id + 1)
    /\ UNCHANGED result
    /\ UNCHANGED << midx, entry_pack_ids, should_interrupt, deep_check,
                    actual_index_checksum, pack_ids_and_offsets, pack_ids_slice,
                    entries_to_check, entry_cursor, pack_traverse_statistics >>
    /\ UNCHANGED sideband

\* mutant: the interrupt is reported as traverse::Error::Interrupted
PollInterrupt_TraverseInterrupted ==
    /\ pc = "poll"
    /\ UNCHANGED phases
    /\ events' = Append(events, PollEvent(pack_id, should_interrupt))
    /\ IF should_interrupt
       THEN /\ Return(Err("Interrupted", "", None, None, None, None))
            /\ UNCHANGED << total_objects_checked, pack_id >>
       ELSE /\ total_objects_checked' = total_objects_checked + Len(entries_to_check)
            /\ IF deep_check
               THEN pc' = "bundle" /\ UNCHANGED pack_id
               ELSE loop_head(pack_id + 1)
            /\ UNCHANGED result
    /\ UNCHANGED << midx, entry_pack_ids, should_interrupt, deep_check,
                    actual_index_checksum, pack_ids_and_offsets, pack_ids_slice,
                    entries_to_check, entry_cursor, pack_traverse_statistics >>
    /\ UNCHANGED sideband

\* should_interrupt.load(Relaxed) after the entry loop, then the count
PollInterrupt ==
    /\ pc = "poll"
    /\ UNCHANGED phases
    /\ events' = Append(events, PollEvent(pack_id, should_interrupt))
    /\ IF should_interrupt
       THEN /\ Return(Processor("Interrupted"))
            /\ UNCHANGED << total_objects_checked, pack_id >>
       ELSE /\ total_objects_checked' = total_objects_checked + Len(entries_to_check)
            /\ IF deep_check
               THEN pc' = "bundle" /\ UNCHANGED pack_id
               ELSE loop_head(pack_id + 1)
            /\ UNCHANGED result
    /\ UNCHANGED << midx, entry_pack_ids, should_interrupt, deep_check,
                    actual_index_checksum, pack_ids_and_offsets, pack_ids_slice,
                    entries_to_check, entry_cursor, pack_traverse_statistics >>
    /\ UNCHANGED sideband

\* map_err of the bundle verifier's error
map_bundle_err(variant) ==
    IF variant = "Processor"
    THEN Processor("IndexIntegrity")
    ELSE Err(variant, "", None, None, None, None)

\* mutant: the statistics are collected newest first
VerifyBundle_Prepends ==
    /\ pc = "bundle"
    /\ UNCHANGED phases
    /\ \E outcome \in { "Ok" } \cup TraverseErrors :
         /\ events' = Append(events, VerifyEvent(pack_id, outcome))
         /\ IF outcome = "Ok"
            THEN /\ pack_traverse_statistics' =
                        << traverse_statistics(pack_id) >> \o pack_traverse_statistics
                 /\ loop_head(pack_id + 1)
                 /\ UNCHANGED result
            ELSE /\ Return(map_bundle_err(outcome))
                 /\ UNCHANGED << pack_traverse_statistics, pack_id >>
    /\ UNCHANGED << midx, entry_pack_ids, should_interrupt, deep_check,
                    actual_index_checksum, pack_ids_and_offsets, pack_ids_slice,
                    entries_to_check, entry_cursor, total_objects_checked >>
    /\ UNCHANGED sideband

\* bundle.verify_integrity(..) on the deep path
VerifyBundle ==
    /\ pc = "bundle"
    /\ UNCHANGED phases
    /\ \E outcome \in { "Ok" } \cup TraverseErrors :
         /\ events' = Append(events, VerifyEvent(pack_id, outcome))
         /\ IF outcome = "Ok"
            THEN /\ pack_traverse_statistics' =
                        Append(pack_traverse_statistics, traverse_statistics(pack_id))
                 /\ loop_head(pack_id + 1)
                 /\ UNCHANGED result
            ELSE /\ Return(map_bundle_err(outcome))
                 /\ UNCHANGED << pack_traverse_statistics, pack_id >>
    /\ UNCHANGED << midx, entry_pack_ids, should_interrupt, deep_check,
                    actual_index_checksum, pack_ids_and_offsets, pack_ids_slice,
                    entries_to_check, entry_cursor, total_objects_checked >>
    /\ UNCHANGED sideband

\* assert_eq!(num_objects, total_objects_checked) and the outcome
Finish ==
    /\ pc = "assert"
    /\ UNCHANGED phases
    /\ IF num_objects # total_objects_checked
       THEN Return(Panic("assert_eq"))
       ELSE Return(OkOutcome(actual_index_checksum))
    /\ UNCHANGED << midx, entry_pack_ids, should_interrupt, deep_check, locals, events >>
    /\ UNCHANGED sideband

Next ==
    \/ verify_integrity
    \/ verify_integrity_fast
    \/ SetInterrupt
    \/ ChecksumPhase
    \/ FanPhase
    \/ EmptyPhase
    \/ OrderPhase
    \/ OpenPack
    \/ CheckEntry
    \/ PollInterrupt
    \/ VerifyBundle
    \/ Finish

Spec == Init /\ [][Next]_vars

TypeOK ==
    /\ pc \in { "idle", "checksum", "fan", "empty", "order", "open", "entries",
                "poll", "bundle", "assert", "done" }
    /\ result.status \in { "running", "ok", "err", "panic" }
    /\ (pc = "done") <=> (result.status # "running")

(***************************************************************************)
(* Vocabulary of the properties.                                            *)
(***************************************************************************)
Done == pc = "done"
Failed(error) == Done /\ result.status = "err" /\ result.error = error
Succeeded == Done /\ result.status = "ok"

\* the phases of section 4.1.3 in their order
PhaseOrder == << "checksum", "fan", "empty", "order", "per_pack" >>
Entered(phase) == \E k \in 1 .. Len(phases) : phases[k] = phase

\* what the inputs are like, stated without the code's operators
ChecksumRead == data_hash # None
ChecksumMatches == data_hash = stored_checksum
FanMonotone == \A i \in 1 .. (FanLen - 1) : fan[i] <= fan[i + 1]
FanViolations == { i \in 0 .. (FanLen - 2) : fan[i + 1] > fan[i + 2] }
OrderViolations == { i \in 0 .. (num_objects - 2) : ~(oids[i + 2] > oids[i + 1]) }
StrictlyAscending == OrderViolations = { }
Least(S) == CHOOSE x \in S : \A y \in S : x <= y

\* fan[b] counts the oids whose first byte is at most b
FanIsHistogram ==
    \A b \in 0 .. (FanLen - 1) :
        fan[b + 1] = Cardinality({ i \in 1 .. num_objects : FirstByte(oids[i]) <= b })

EventsOf(kind) == { k \in 1 .. Len(events) : events[k].ev = kind }

(***************************************************************************)
(* C1: the phases run in the order checksum, fan table, emptiness, oid      *)
(* order, per-pack, and the error returned is that of the earliest phase    *)
(* that fails: a checksum failure is reported whatever the fan table looks  *)
(* like, a Fan error only after the checksum matched, Empty only with a     *)
(* monotone fan table, OutOfOrder only for a non-empty MIDX, and            *)
(* BundleInit, OidNotFound and PackOffsetMismatch only for strictly         *)
(* ascending oids; once an early phase failed nothing was opened.           *)
(***************************************************************************)
C1_PhasesInOrder ==
    /\ phases = SubSeq(PhaseOrder, 1, Len(phases))
    /\ Len(phases) >= 2 => ChecksumRead /\ ChecksumMatches
    /\ Len(phases) >= 3 => FanMonotone
    /\ Len(phases) >= 4 => num_objects > 0
    /\ Len(phases) >= 5 => StrictlyAscending
    /\ events # << >> => phases = PhaseOrder
    /\ Done =>
        /\ Failed("MultiIndexChecksum") <=> Len(phases) = 1
        /\ Failed("Fan") <=> Len(phases) = 2
        /\ Failed("Empty") <=> Len(phases) = 3
        /\ Failed("OutOfOrder") <=> Len(phases) = 4
        /\ ChecksumRead /\ ~ChecksumMatches => Failed("MultiIndexChecksum")
        /\ ChecksumRead /\ ChecksumMatches /\ ~FanMonotone => Failed("Fan")
        /\ ChecksumRead /\ ChecksumMatches /\ FanMonotone /\ num_objects = 0
                => Failed("Empty")
        /\ ChecksumRead /\ ChecksumMatches /\ FanMonotone /\ num_objects > 0
                /\ ~StrictlyAscending
                => Failed("OutOfOrder")
        /\ result.status = "err"
                /\ result.error \in { "BundleInit", "OidNotFound", "PackOffsetMismatch" }
                => phases = PhaseOrder

\* a Fan error is returned for a MIDX whose later phases would fail too
C1_Witness ==
    /\ Failed("Fan")
    /\ num_objects >= 2
    /\ ~StrictlyAscending
    /\ events = << >>

(***************************************************************************)
(* The per-pack phase as the log shows it.                                  *)
(***************************************************************************)
\* every index file that was opened existed, every entry looked up was
\* found at the offset the MIDX records, and no poll saw the flag set
LogClean ==
    \A k \in 1 .. Len(events) :
        LET e == events[k]
        IN  /\ e.ev = "open" => e.idx /\ (e.what = "bundle" => e.pck)
            /\ e.ev = "check" => e.actual = e.expected
            /\ e.ev = "poll" => ~e.flag
            /\ e.ev = "verify" => e.what = "Ok"

\* every pack of index_names was opened and polled, every entry was looked up
LogComplete ==
    /\ \A p \in 0 .. (num_indices - 1) :
         /\ \E k \in EventsOf("open") : events[k].pack = p
         /\ \E k \in EventsOf("poll") : events[k].pack = p
    /\ \A i \in 0 .. (num_objects - 1) :
         \E k \in EventsOf("check") : events[k].entry = i

(***************************************************************************)
(* C2, as the spec states it: for num_objects >= 2 verify_integrity_fast    *)
(* succeeds if and only if the oids are strictly ascending and the fan      *)
(* table is monotone and is the first-byte histogram of the oids.           *)
(***************************************************************************)
C2_Original ==
    (Done /\ ~deep_check /\ num_objects >= 2)
        => (Succeeded <=> (StrictlyAscending /\ FanMonotone /\ FanIsHistogram))

(***************************************************************************)
(* C2, amended: for num_objects >= 2 verify_integrity_fast succeeds if and  *)
(* only if the checksum matches, the fan table is monotone non-decreasing,  *)
(* the oids are strictly ascending, every index file named by the MIDX can  *)
(* be opened, every entry is found in its index at the MIDX offset, and no  *)
(* poll sees should_interrupt set.  The fan table is not compared with the  *)
(* first-byte histogram of the oids.                                        *)
(***************************************************************************)
C2_FastSucceedsIff ==
    (Done /\ ~deep_check /\ num_objects >= 2)
        => (Succeeded <=> ( /\ ChecksumRead /\ ChecksumMatches
                            /\ FanMonotone
                            /\ StrictlyAscending
                            /\ LogClean /\ LogComplete ))

\* the fast path succeeded on a fan table that is not the histogram
C2_Witness ==
    /\ Succeeded /\ ~deep_check /\ num_objects >= 2
    /\ ~FanIsHistogram

(***************************************************************************)
(* C3: once the oid order phase is entered, the run fails with              *)
(* OutOfOrder { index: i } for the least i in 0 .. num_objects - 2 whose    *)
(* successor oid is not strictly greater (equal oids included), and the     *)
(* phase does not fail when there is no such i.                             *)
(***************************************************************************)
C3_OutOfOrderAtFirstViolation ==
    /\ Entered("order") /\ OrderViolations # { }
            => /\ Failed("OutOfOrder")
               /\ result.variant = IF deep_check THEN "Processor" ELSE "Integrity"
               /\ result.index = Least(OrderViolations)
    /\ Entered("order") /\ OrderViolations = { }
            => /\ ~Failed("OutOfOrder")
               /\ Len(pack_ids_and_offsets) = num_objects

\* two violations, the first of them a pair of equal oids
C3_Witness ==
    /\ Failed("OutOfOrder")
    /\ Cardinality(OrderViolations) = 2
    /\ oids[result.index + 1] = oids[result.index + 2]

(***************************************************************************)
(* C4: once the checksum matched, the run fails with Fan { index: i } for   *)
(* the first i in 0 .. FanLen - 2 with fan[i] > fan[i + 1], and the fan     *)
(* phase does not fail on a monotonically non-decreasing table.             *)
(***************************************************************************)
C4_FanAtFirstViolation ==
    /\ Entered("fan") <=> (ChecksumRead /\ ChecksumMatches /\ pc # "fan")
    /\ Entered("fan") /\ FanViolations # { }
            => /\ Failed("Fan")
               /\ result.variant = IF deep_check THEN "Processor" ELSE "Integrity"
               /\ result.index = Least(FanViolations)
    /\ Entered("fan") /\ FanViolations = { } => ~Failed("Fan")

\* a table that decreases twice
C4_Witness ==
    /\ Failed("Fan")
    /\ Cardinality(FanViolations) = 2

(***************************************************************************)
(* More vocabulary of the log.                                              *)
(***************************************************************************)
LastEvent == events[Len(events)]
\* the entries the MIDX assigns to pack p
EntriesOfPack(p) == { i \in 0 .. (Len(entry_pack_ids) - 1) : entry_pack_ids[i + 1] = p }
\* the entries of pack p looked up before position k of the log
CheckedBefore(p, k) ==
    { events[j].entry : j \in { j \in EventsOf("check") : j < k /\ events[j].pack = p } }
\* the open event under which the event at position k happened
OpenOf(k) == CHOOSE j \in EventsOf("open") :
                 j < k /\ \A i \in EventsOf("open") : i < k => i <= j

(***************************************************************************)
(* C5: every MIDX entry is looked up in the per-pack index that its         *)
(* pack id names; an absent oid ends the run with OidNotFound { id: oid },  *)
(* a different offset with PackOffsetMismatch { id, expected = the MIDX     *)
(* offset, actual = the index offset }; so after a successful run every     *)
(* entry was found in its index at the MIDX offset.                         *)
(***************************************************************************)
C5_EntriesMatchTheirIndex ==
    /\ \A k \in EventsOf("check") :
         LET e == events[k]
         IN  /\ e.pack = entry_pack_ids[e.entry + 1]
             /\ events[OpenOf(k)].pack = e.pack
             /\ e.id = oids[e.entry + 1]
             /\ e.expected = pack_offset_at_index(e.entry)
             /\ e.actual = None
                  => /\ k = Len(events)
                     /\ Failed("OidNotFound")
                     /\ result.id = oids[e.entry + 1]
             /\ e.actual # None /\ e.actual # e.expected
                  => /\ k = Len(events)
                     /\ Failed("PackOffsetMismatch")
                     /\ result.id = oids[e.entry + 1]
                     /\ result.expected = pack_offset_at_index(e.entry)
                     /\ result.actual = e.actual
    /\ Failed("OidNotFound") \/ Failed("PackOffsetMismatch")
         => LastEvent.ev = "check" /\ LastEvent.actual # LastEvent.expected
    /\ Succeeded =>
         \A i \in 0 .. (num_objects - 1) :
            \E k \in EventsOf("check") :
                /\ events[k].entry = i
                /\ events[k].pack = entry_pack_ids[i + 1]
                /\ events[k].actual = pack_offset_at_index(i)

\* an offset mismatch in the second pack, after an entry that matched
C5_Witness ==
    /\ Failed("PackOffsetMismatch")
    /\ LastEvent.pack = 1
    /\ Cardinality(EventsOf("check")) >= 2

(***************************************************************************)
(* C6: an outcome is returned only after every phase completed without      *)
(* error, and its checksum is the one computed in the checksum phase, which *)
(* equals the trailer of the MIDX.                                          *)
(***************************************************************************)
C6_OutcomeOnlyAfterAllPhases ==
    /\ result.status = "ok" => Done
    /\ Succeeded =>
         /\ phases = PhaseOrder
         /\ LogClean /\ LogComplete
         /\ deep_check => \A p \in 0 .. (num_indices - 1) :
                             \E k \in EventsOf("verify") : events[k].pack = p
         /\ total_objects_checked = num_objects
         /\ ChecksumRead
         /\ result.checksum = data_hash
         /\ result.checksum = stored_checksum

\* a deep verification of a full MIDX with two packs succeeded
C6_Witness ==
    /\ Succeeded /\ deep_check
    /\ num_objects = MaxObjects /\ num_indices = 2

C8_FastOpensOnlyIndices ==
    /\ ~deep_check =>
         /\ \A k \in 1 .. Len(events) :
              /\ events[k].ev # "verify"
              /\ events[k].ev = "open" => events[k].what = "index"
         /\ pack_traverse_statistics = << >>
         /\ Failed("BundleInit") => LastEvent.ev = "open" /\ ~LastEvent.idx
    /\ \A k \in EventsOf("open") :
         (events[k].idx /\ ~events[k].pck)
            => IF deep_check
               THEN k = Len(events) /\ Failed("BundleInit") /\ events[k].what = "bundle"
               ELSE ~(k = Len(events) /\ Done)

\* the fast path succeeded although the .pack of the second index is missing
C8_Witness ==
    /\ Succeeded /\ ~deep_check
    /\ \E k \in EventsOf("open") : events[k].pack = 1 /\ events[k].idx /\ ~events[k].pck

(***************************************************************************)
(* C9: a successful deep verification returns one statistics entry per      *)
(* name in index_names, and the entry at position p is what verifying the   *)
(* bundle of pack id p yielded.                                             *)
(***************************************************************************)
C9_StatisticsInIndexNamesOrder ==
    /\ Succeeded /\ deep_check =>
         /\ Len(pack_traverse_statistics) = num_indices
         /\ \A p \in 0 .. (num_indices - 1) : pack_traverse_statistics[p + 1].bundle = p
    /\ Len(pack_traverse_statistics)
         = Cardinality({ k \in EventsOf("verify") : events[k].what = "Ok" })

\* the plan starts with an entry that is not the first of the MIDX
C9_Witness ==
    /\ Succeeded /\ deep_check
    /\ num_indices = 2
    /\ pack_ids_and_offsets[1][2] # 0

(***************************************************************************)
(* C10: on the deep path the packs of index_names are opened once each in   *)
(* ascending pack id order, referenced by an entry or not; the offset       *)
(* checks of a pack are all made before its bundle is verified, and its     *)
(* bundle verification has returned before the next pack is opened.         *)
(***************************************************************************)
C10_OnePackAtATime ==
    deep_check =>
      /\ \A k \in EventsOf("open") :
           /\ events[k].pack = Cardinality({ j \in EventsOf("open") : j < k })
           /\ k > 1 => /\ events[k - 1].ev = "verify"
                       /\ events[k - 1].what = "Ok"
                       /\ events[k - 1].pack = events[k].pack - 1
      /\ \A k \in EventsOf("verify") :
           /\ events[k - 1].ev = "poll" /\ events[k - 1].pack = events[k].pack
           /\ events[OpenOf(k)].pack = events[k].pack
           /\ CheckedBefore(events[k].pack, k) = EntriesOfPack(events[k].pack)
           /\ \A j \in EventsOf("check") : events[j].pack = events[k].pack => j < k
      /\ Succeeded => { events[k].pack : k \in EventsOf("open") } = 0 .. (num_indices - 1)

\* both packs were opened and verified though no entry lies in the first
C10_Witness ==
    /\ Succeeded /\ deep_check
    /\ num_indices = 2 /\ num_objects >= 2
    /\ EntriesOfPack(0) = { }

(***************************************************************************)
(* C11: when every pack of index_names has been processed and the number    *)
(* of entries examined differs from num_objects, the caller receives the    *)
(* error UnexpectedObjectCount { actual, expected }; the run does not end   *)
(* in a panic.  The code compares the two counts with assert_eq!, and the   *)
(* formula is violated by a MIDX with a pack id that names no index.        *)
(***************************************************************************)
C11_Original ==
    /\ result.status # "panic"
    /\ (Done /\ pack_id = num_indices /\ total_objects_checked # num_objects) =>
         /\ result.status = "err"
         /\ result.error = "UnexpectedObjectCount"
         /\ result.actual = total_objects_checked
         /\ result.expected = num_objects

\* every index was opened and checked without error, an entry whose pack id
\* is num_indices or larger was never examined, and assert_eq! panicked
C11_AssertionFails ==
    /\ Done /\ result = Panic("assert_eq")
    /\ pack_id = num_indices
    /\ total_objects_checked < num_objects
    /\ \E i \in 1 .. num_objects : entry_pack_ids[i] >= num_indices

(***************************************************************************)
(* The sideband reader: a second specification over the same variables.     *)
(* One call of a poll function is a sequence of steps: the entry, then one  *)
(* step per arm of the loop in poll_fill_buf; the caller makes no other     *)
(* call until the poll function has returned.                               *)
(***************************************************************************)
verifier == << midx, entry_pack_ids, should_interrupt, pc, deep_check, locals,
               result, history >>
parent_vars == << parent_is_done, parent_stopped_at, parent_delimiters, parent_buf,
                  lines_read, arrived >>
reader_history == << lines, delivered, progress, reset_calls, wrapped,
           requested >>

\* the delimiter sets a caller hands to reset_with
DelimiterSets == { { "Flush" }, { "Flush", "Delim" } }
\* arguments of consume and lengths of the buffer handed to poll_read, which
\* the call reads when it copies the bytes
Amounts == 0 .. (MaxPayload + 2)

\* no verification is going on
VerifierIdle ==
    /\ num_objects = 0
    /\ num_indices = 1
    /\ fan = [i \in 1 .. FanLen |-> 0]
    /\ oids = << >>
    /\ stored_checksum = 0
    /\ data_hash = None
    /\ entry_pack_ids = << >>
    /\ should_interrupt = FALSE
    /\ pc = "idle"
    /\ deep_check = FALSE
    /\ actual_index_checksum = None
    /\ pack_ids_and_offsets = << >>
    /\ pack_ids_slice = << >>
    /\ pack_id = 0
    /\ entries_to_check = << >>
    /\ entry_cursor = 0
    /\ total_objects_checked = 0
    /\ pack_traverse_statistics = << >>
    /\ result = Running
    /\ phases = << >>
    /\ events = << >>

SidebandInit == VerifierIdle /\ ParentAlone

\* WithSidebands { state: Idle { parent: Some(parent) }, handle_progress, pos: 0, cap: 0 }
construct(handler) ==
    /\ reader \in { "none", "dropped" }
    /\ reader' = "alive"
    /\ state' = "Idle"
    /\ parent' = TRUE
    /\ parent_inactive' = FALSE
    /\ read_line' = "none"
    /\ handle_progress' = handler
    /\ pos' = 0
    /\ cap' = 0
    /\ call' = "none"
    /\ last' = NoReturn
    /\ lines' = << >>
    /\ delivered' = << >>
    /\ progress' = << >>
    /\ reset_calls' = 0
    /\ wrapped' = FALSE
    /\ requested' = { }
    /\ UNCHANGED << parent_vars, verifier >>

new == construct(FALSE)
with_progress_handler == construct(TRUE)
without_progress_handler == construct(FALSE)

\* the transport receives the bytes of the line a read is waiting for
Arrive ==
    /\ reader = "alive" /\ state = "ReadLine"
    /\ ~arrived
    /\ arrived' = TRUE
    /\ UNCHANGED << parent_is_done, parent_stopped_at, parent_delimiters, parent_buf,
                    lines_read, reader, state, parent, parent_inactive, read_line,
                    handle_progress, pos, cap, call, last, reader_history, verifier >>

\* the log of delivered bytes grows by bytes; it records what the caller
\* received up to a consume that wrapped around, and nothing from then on
deliver(bytes) == IF wrapped THEN << >> ELSE delivered \o bytes

\* a panic unwinds out of the call; the reader is not used again
panics(op, what) ==
    /\ reader' = "panicked"
    /\ call' = "none"
    /\ last' = Ret(op, "Ready", "Panic", what, 0)
    /\ UNCHANGED << pos, cap, delivered >>

\* mutant: ReadLineFuture::poll leaves cap as poll_fill_buf set it
returns_CapKept(op, p, c, ok, bytes, error) ==
    /\ call' = "none"
    /\ IF ~ok
       THEN /\ last' = Ret(op, "Ready", "Err", error, 0)
            /\ pos' = p /\ cap' = c
            /\ UNCHANGED << delivered, reader >>
       ELSE CASE op = "fill_buf" ->
                   /\ last' = Ret(op, "Ready", "Ok", "", Len(bytes))
                   /\ pos' = p /\ cap' = c
                   /\ UNCHANGED << delivered, reader >>
              [] op = "read" ->
                   \E n \in Amounts :
                     LET nread == min(Len(bytes), n)
                     IN  /\ last' = Ret(op, "Ready", "Ok", "", nread)
                       /\ pos' = min(p + nread, c) /\ cap' = c
                       /\ delivered' = deliver(SubSeq(bytes, 1, nread))
                       /\ UNCHANGED reader
              [] op = "read_line" ->
                   IF is_utf8(bytes)
                   THEN /\ last' = Ret(op, "Ready", "Ok", "", Len(bytes))
                        /\ pos' = p /\ cap' = c
                        /\ delivered' = deliver(bytes)
                        /\ UNCHANGED reader
                   ELSE /\ reader' = "panicked"
                        /\ last' = Ret(op, "Ready", "Panic", "unwrap", 0)
                        /\ pos' = p /\ cap' = c
                        /\ UNCHANGED delivered

\* poll_fill_buf returned Ready to op with the window p..c: fill_buf hands
\* the result on, poll_read copies what fits and consumes it (264-269),
\* ReadLineFuture::poll takes the whole slice as text and clears cap (150-157)
returns(op, p, c, ok, bytes, error) ==
    /\ call' = "none"
    /\ IF ~ok
       THEN /\ last' = Ret(op, "Ready", "Err", error, 0)
            /\ pos' = p /\ cap' = c
            /\ UNCHANGED << delivered, reader >>
       ELSE CASE op = "fill_buf" ->
                   /\ last' = Ret(op, "Ready", "Ok", "", Len(bytes))
                   /\ pos' = p /\ cap' = c
                   /\ UNCHANGED << delivered, reader >>
              [] op = "read" ->
                   \E n \in Amounts :
                     LET nread == min(Len(bytes), n)
                     IN  /\ last' = Ret(op, "Ready", "Ok", "", nread)
                       /\ pos' = min(p + nread, c) /\ cap' = c
                       /\ delivered' = deliver(SubSeq(bytes, 1, nread))
                       /\ UNCHANGED reader
              [] op = "read_line" ->
                   IF is_utf8(bytes)
                   THEN /\ last' = Ret(op, "Ready", "Ok", "", Len(bytes))
                        /\ pos' = p /\ cap' = 0
                        /\ delivered' = deliver(bytes)
                        /\ UNCHANGED reader
                   ELSE /\ reader' = "panicked"
                        /\ last' = Ret(op, "Ready", "Panic", "unwrap", 0)
                        /\ pos' = p /\ cap' = c
                        /\ UNCHANGED delivered

\* the end of poll_fill_buf (244-248): the slice pos..cap of the parent's buffer
expose(op, p, c, st, par, buf) ==
    IF st = "ReadLine" THEN panics(op, "unreachable")
    ELSE IF ~par THEN panics(op, "parent always available")
    ELSE returns(op, p, c, TRUE, slice(buf, p, c), "")

\* mutant: the loop is entered whatever the window holds
enter_AlwaysReads(op) ==
    /\ call' = op
    /\ UNCHANGED << pos, cap, delivered, last, reader >>
    /\ UNCHANGED << parent_vars, state, parent, parent_inactive, read_line,
                    handle_progress, lines, progress, reset_calls, wrapped,
                    requested, verifier >>

\* the start of poll_fill_buf (171): with an exhausted window the loop is
\* entered, otherwise the rest of the window is returned
enter(op) ==
    /\ IF pos >= cap
       THEN /\ call' = op
            /\ UNCHANGED << pos, cap, delivered, last, reader >>
       ELSE expose(op, pos, cap, state, parent, parent_buf)
    /\ UNCHANGED << parent_vars, state, parent, parent_inactive, read_line,
                    handle_progress, lines, progress, reset_calls, wrapped,
                    requested, verifier >>

poll_fill_buf ==
    /\ reader = "alive" /\ call = "none"
    /\ enter("fill_buf")

poll_read ==
    /\ reader = "alive" /\ call = "none"
    /\ enter("read")

\* ReadLineFuture::poll
read_line_poll ==
    /\ reader = "alive" /\ call = "none"
    /\ IF cap # 0
       THEN /\ panics("read_line", "assert_eq")
            /\ UNCHANGED << parent_vars, state, parent, parent_inactive, read_line,
                            handle_progress, lines, progress, reset_calls, wrapped,
                    requested, verifier >>
       ELSE enter("read_line")

\* what the transport holds for the next read of the parent
Available == IF lines_read < MaxReads THEN Transport ELSE { Flush }

\* the outcomes of polling the read_line future: Pending, or Ready with
\* None (the parent is done, or the line is one of its delimiters), with an
\* error, or with a line
Pending == [ready |-> FALSE, some |-> FALSE, line |-> Flush]
ReadyNone == [ready |-> TRUE, some |-> FALSE, line |-> Flush]
ReadySome(line) == [ready |-> TRUE, some |-> TRUE, line |-> line]
poll_outcomes ==
    IF read_line = "created" /\ parent_is_done THEN { ReadyNone }
    ELSE IF ~arrived THEN { Pending }
    ELSE { IF o.kind \in parent_delimiters THEN [ReadyNone EXCEPT !.line = o]
           ELSE ReadySome(o) : o \in Available }

\* what the loop does with a completed read (202-236)
Window(ofs, n) == [what |-> "break", ofs |-> ofs, n |-> n, error |-> "",
                   is_error |-> FALSE, text |-> << >>]
Fail(error) == [what |-> "return", ofs |-> 0, n |-> 0, error |-> error,
                is_error |-> FALSE, text |-> << >>]
Handler(is_error, text) == [what |-> "continue", ofs |-> 0, n |-> 0, error |-> "",
                            is_error |-> is_error, text |-> text]

\* mutant: the band byte is left in the window of a data line
examine_BandByteKept(o) ==
    IF ~o.some THEN Window(0, 0)
    ELSE IF o.line.kind = "IoError" THEN Fail("Io")
    ELSE IF o.line.kind = "DecodeError" THEN Fail("Other")
    ELSE IF handle_progress
         THEN LET band == decode_band(o.line)
              IN  IF ~band.ok THEN Fail("Other")
                  ELSE IF band.band = 1
                       THEN Window(U16_HEX_BYTES, Len(band.d) + ENCODED_BAND)
                       ELSE Handler(band.band = 3, band.d)
         ELSE IF o.line.kind = "Data"
              THEN Window(U16_HEX_BYTES, Len(o.line.data))
              ELSE Fail("UnexpectedEof")

\* mutant: an error-band line is reported as progress
examine_ErrorAsProgress(o) ==
    IF ~o.some THEN Window(0, 0)
    ELSE IF o.line.kind = "IoError" THEN Fail("Io")
    ELSE IF o.line.kind = "DecodeError" THEN Fail("Other")
    ELSE IF handle_progress
         THEN LET band == decode_band(o.line)
              IN  IF ~band.ok THEN Fail("Other")
                  ELSE IF band.band = 1
                       THEN Window(U16_HEX_BYTES + ENCODED_BAND, Len(band.d))
                       ELSE Handler(FALSE, band.d)
         ELSE IF o.line.kind = "Data"
              THEN Window(U16_HEX_BYTES, Len(o.line.data))
              ELSE Fail("UnexpectedEof")

\* mutant: without a handler the first byte of a data line is stripped too
examine_AlwaysStripsBand(o) ==
    IF ~o.some THEN Window(0, 0)
    ELSE IF o.line.kind = "IoError" THEN Fail("Io")
    ELSE IF o.line.kind = "DecodeError" THEN Fail("Other")
    ELSE IF handle_progress
         THEN LET band == decode_band(o.line)
              IN  IF ~band.ok THEN Fail("Other")
                  ELSE IF band.band = 1
                       THEN Window(U16_HEX_BYTES + ENCODED_BAND, Len(band.d))
                       ELSE Handler(band.band = 3, band.d)
         ELSE IF o.line.kind = "Data"
              THEN Window(U16_HEX_BYTES + ENCODED_BAND, Len(o.line.data) - 1)
              ELSE Fail("UnexpectedEof")

examine(o) ==
    IF ~o.some THEN Window(0, 0)
    ELSE IF o.line.kind = "IoError" THEN Fail("Io")
    ELSE IF o.line.kind = "DecodeError" THEN Fail("Other")
    ELSE IF handle_progress
         THEN LET band == decode_band(o.line)
              IN  IF ~band.ok THEN Fail("Other")
                  ELSE IF band.band = 1
                       THEN Window(U16_HEX_BYTES + ENCODED_BAND, Len(band.d))
                       ELSE Handler(band.band = 3, band.d)
         ELSE IF o.line.kind = "Data"
              THEN Window(U16_HEX_BYTES, Len(o.line.data))
              ELSE Fail("UnexpectedEof")

\* Text::from(d).0: the payload without a trailing newline
Text(d) == IF Len(d) > 0 /\ d[Len(d)] = 10 THEN SubSeq(d, 1, Len(d) - 1) ELSE d

\* a line the loop obtained, and whether a handler was installed then
Obtained(line, handler) == [line |-> line, handler |-> handler]
\* a call handle_progress(is_error, text), made for the line numbered at
HandlerCall(is_error, text, at) == [is_error |-> is_error, text |-> text, at |-> at]

\* mutant: the Idle arm keeps no pointer to the parent it gave away
IdleArm_PointerNotKept ==
    /\ reader = "alive" /\ call # "none"
    /\ state = "Idle"
    /\ IF parent
       THEN /\ parent' = FALSE
            /\ state' = "ReadLine"
            /\ read_line' = "created"
            /\ parent_inactive' = FALSE
            /\ UNCHANGED << pos, cap, delivered, last, reader, call >>
       ELSE /\ panics(call, "parent to be present here")
            /\ UNCHANGED << parent, state, read_line, parent_inactive >>
    /\ UNCHANGED << parent_vars, handle_progress, lines, progress, reset_calls, wrapped,
                    requested, verifier >>

\* the Idle arm of the loop (174-181): the parent moves into a new read_line
\* future and a pointer to it stays behind
IdleArm ==
    /\ reader = "alive" /\ call # "none"
    /\ state = "Idle"
    /\ IF parent
       THEN /\ parent' = FALSE
            /\ state' = "ReadLine"
            /\ read_line' = "created"
            /\ parent_inactive' = TRUE
            /\ UNCHANGED << pos, cap, delivered, last, reader, call >>
       ELSE /\ panics(call, "parent to be present here")
            /\ UNCHANGED << parent, state, read_line, parent_inactive >>
    /\ UNCHANGED << parent_vars, handle_progress, lines, progress, reset_calls, wrapped,
                    requested, verifier >>

\* mutant: on Pending the future is dropped and the parent taken back, so
\* the next poll starts another read
ReadLineArm_DropsPendingRead ==
    /\ reader = "alive" /\ call # "none"
    /\ state = "ReadLine"
    /\ UNCHANGED << parent_delimiters, handle_progress, reset_calls, wrapped,
                    requested, verifier >>
    /\ \E o \in poll_outcomes :
         IF ~o.ready
         THEN \* ready!(read_line.poll(cx)) returns Pending
              /\ read_line' = "none"
              /\ state' = "Idle"
              /\ parent' = TRUE
              /\ parent_inactive' = FALSE
              /\ call' = "none"
              /\ last' = Ret(call, "Pending", "", "", 0)
              /\ UNCHANGED << parent_is_done, parent_stopped_at, parent_buf, lines_read,
                              arrived, pos, cap, lines, delivered, progress, reader >>
         ELSE LET drawn == ~(read_line = "created" /\ parent_is_done)
                  stops == drawn /\ ~o.some
                  is_line == o.some /\ o.line.kind \notin { "IoError", "DecodeError" }
                  buf == IF is_line THEN line_buf(o.line) ELSE parent_buf
                  todo == examine(o)
              IN  \* the parent finished the read
                  /\ arrived' = IF drawn THEN FALSE ELSE arrived
                  /\ lines_read' = IF drawn /\ lines_read < MaxReads
                                   THEN lines_read + 1 ELSE lines_read
                  /\ parent_is_done' = (parent_is_done \/ stops)
                  /\ parent_stopped_at' = IF stops THEN o.line.kind ELSE parent_stopped_at
                  /\ parent_buf' = buf
                  /\ read_line' = "none"
                  /\ IF ~parent_inactive
                     THEN /\ panics(call, "parent pointer always set")
                          /\ UNCHANGED << state, parent, parent_inactive, lines, progress >>
                     ELSE /\ parent_inactive' = FALSE
                          /\ state' = "Idle"
                          /\ parent' = TRUE
                          /\ lines' = IF is_line
                                      THEN Append(lines, Obtained(o.line, handle_progress))
                                      ELSE lines
                          /\ progress' = IF todo.what = "continue"
                                         THEN Append(progress,
                                                HandlerCall(todo.is_error, Text(todo.text),
                                                            Len(lines) + 1))
                                         ELSE progress
                          /\ CASE todo.what = "break" ->
                                    expose(call, todo.ofs, todo.n + todo.ofs, "Idle", TRUE, buf)
                               [] todo.what = "return" ->
                                    returns(call, pos, cap, FALSE, << >>, todo.error)
                               [] todo.what = "continue" ->
                                    UNCHANGED << pos, cap, delivered, last, reader, call >>

\* mutant: the ReadLine arm takes every poll of the future for Pending
ReadLineArm_NeverReady ==
    /\ reader = "alive" /\ call # "none"
    /\ state = "ReadLine"
    /\ UNCHANGED << parent_delimiters, handle_progress, reset_calls, wrapped,
                    requested, verifier >>
    /\ \E o \in { Pending } :
         IF ~o.ready
         THEN \* ready!(read_line.poll(cx)) returns Pending
              /\ read_line' = "pending"
              /\ call' = "none"
              /\ last' = Ret(call, "Pending", "", "", 0)
              /\ UNCHANGED << parent_is_done, parent_stopped_at, parent_buf, lines_read,
                              arrived, state, parent, parent_inactive, pos, cap,
                              lines, delivered, progress, reader >>
         ELSE LET drawn == ~(read_line = "created" /\ parent_is_done)
                  stops == drawn /\ ~o.some
                  is_line == o.some /\ o.line.kind \notin { "IoError", "DecodeError" }
                  buf == IF is_line THEN line_buf(o.line) ELSE parent_buf
                  todo == examine(o)
              IN  \* the parent finished the read
                  /\ arrived' = IF drawn THEN FALSE ELSE arrived
                  /\ lines_read' = IF drawn /\ lines_read < MaxReads
                                   THEN lines_read + 1 ELSE lines_read
                  /\ parent_is_done' = (parent_is_done \/ stops)
                  /\ parent_stopped_at' = IF stops THEN o.line.kind ELSE parent_stopped_at
                  /\ parent_buf' = buf
                  /\ read_line' = "none"
                  /\ IF ~parent_inactive
                     THEN /\ panics(call, "parent pointer always set")
                          /\ UNCHANGED << state, parent, parent_inactive, lines, progress >>
                     ELSE /\ parent_inactive' = FALSE
                          /\ state' = "Idle"
                          /\ parent' = TRUE
                          /\ lines' = IF is_line
                                      THEN Append(lines, Obtained(o.line, handle_progress))
                                      ELSE lines
                          /\ progress' = IF todo.what = "continue"
                                         THEN Append(progress,
                                                HandlerCall(todo.is_error, Text(todo.text),
                                                            Len(lines) + 1))
                                         ELSE progress
                          /\ CASE todo.what = "break" ->
                                    expose(call, todo.ofs, todo.n + todo.ofs, "Idle", TRUE, buf)
                               [] todo.what = "return" ->
                                    returns(call, pos, cap, FALSE, << >>, todo.error)
                               [] todo.what = "continue" ->
                                    UNCHANGED << pos, cap, delivered, last, reader, call >>

\* the ReadLine arm of the loop (182-237) and, when the loop is left, the
\* end of poll_fill_buf (240-248)
ReadLineArm ==
    /\ reader = "alive" /\ call # "none"
    /\ state = "ReadLine"
    /\ UNCHANGED << parent_delimiters, handle_progress, reset_calls, wrapped,
                    requested, verifier >>
    /\ \E o \in poll_outcomes :
         IF ~o.ready
         THEN \* ready!(read_line.poll(cx)) returns Pending
              /\ read_line' = "pending"
              /\ call' = "none"
              /\ last' = Ret(call, "Pending", "", "", 0)
              /\ UNCHANGED << parent_is_done, parent_stopped_at, parent_buf, lines_read,
                              arrived, state, parent, parent_inactive, pos, cap,
                              lines, delivered, progress, reader >>
         ELSE LET drawn == ~(read_line = "created" /\ parent_is_done)
                  stops == drawn /\ ~o.some
                  is_line == o.some /\ o.line.kind \notin { "IoError", "DecodeError" }
                  buf == IF is_line THEN line_buf(o.line) ELSE parent_buf
                  todo == examine(o)
              IN  \* the parent finished the read
                  /\ arrived' = IF drawn THEN FALSE ELSE arrived
                  /\ lines_read' = IF drawn /\ lines_read < MaxReads
                                   THEN lines_read + 1 ELSE lines_read
                  /\ parent_is_done' = (parent_is_done \/ stops)
                  /\ parent_stopped_at' = IF stops THEN o.line.kind ELSE parent_stopped_at
                  /\ parent_buf' = buf
                  /\ read_line' = "none"
                  /\ IF ~parent_inactive
                     THEN /\ panics(call, "parent pointer always set")
                          /\ UNCHANGED << state, parent, parent_inactive, lines, progress >>
                     ELSE /\ parent_inactive' = FALSE
                          /\ state' = "Idle"
                          /\ parent' = TRUE
                          /\ lines' = IF is_line
                                      THEN Append(lines, Obtained(o.line, handle_progress))
                                      ELSE lines
                          /\ progress' = IF todo.what = "continue"
                                         THEN Append(progress,
                                                HandlerCall(todo.is_error, Text(todo.text),
                                                            Len(lines) + 1))
                                         ELSE progress
                          /\ CASE todo.what = "break" ->
                                    expose(call, todo.ofs, todo.n + todo.ofs, "Idle", TRUE, buf)
                               [] todo.what = "return" ->
                                    returns(call, pos, cap, FALSE, << >>, todo.error)
                               [] todo.what = "continue" ->
                                    UNCHANGED << pos, cap, delivered, last, reader, call >>

\* consume (251-254): this.pos = min(this.pos + amt, this.cap) in usize.
\* When pos + amt is no usize the addition panics in a build with overflow
\* checks and wraps around in a build without; of one reader the model
\* follows one such call.  The bytes passed over are delivered
consume ==
    /\ reader = "alive" /\ call = "none"
    /\ \E n \in Amounts \cup { UsizeMax } :
         IF pos + n <= UsizeMax
         THEN /\ pos' = min(pos + n, cap)
              /\ delivered' = deliver(slice(parent_buf, pos, min(pos + n, cap)))
              /\ UNCHANGED << reader, last, wrapped >>
         ELSE \/ /\ ~wrapped
                 /\ pos' = min((pos + n) % (UsizeMax + 1), cap)
                 /\ wrapped' = TRUE
                 /\ delivered' = << >>
                 /\ UNCHANGED << reader, last >>
              \/ /\ reader' = "panicked"
                 /\ last' = Ret("consume", "none", "Panic", "add with overflow", 0)
                 /\ UNCHANGED << pos, delivered, wrapped >>
    /\ UNCHANGED << parent_vars, state, parent, parent_inactive, read_line,
                    handle_progress, cap, call, lines, progress, reset_calls,
                    requested, verifier >>

set_progress_handler ==
    /\ reader = "alive" /\ call = "none"
    /\ \E h \in BOOLEAN : handle_progress' = h
    /\ UNCHANGED << parent_vars, reader, state, parent, parent_inactive, read_line,
                    pos, cap, call, last, reader_history, verifier >>

\* StreamingPeekableIter::reset_with: new delimiters, the stop is forgotten
parent_reset_with(delimiters) ==
    /\ parent_delimiters' = delimiters
    /\ parent_is_done' = FALSE
    /\ parent_stopped_at' = "none"

\* StreamingPeekableIter::reset: reset_with the delimiters it has
parent_reset == parent_reset_with(parent_delimiters)

\* reset_with (93-97)
reset_with ==
    /\ reader = "alive" /\ call = "none"
    /\ \E delimiters \in DelimiterSets :
         /\ requested' = delimiters
         /\ IF state = "Idle"
            THEN IF parent
                 THEN parent_reset_with(delimiters) /\ UNCHANGED << reader, last >>
                 ELSE /\ reader' = "panicked"
                      /\ last' = Ret("reset_with", "none", "Panic", "unwrap", 0)
                      /\ UNCHANGED << parent_delimiters, parent_is_done,
                                      parent_stopped_at >>
            ELSE UNCHANGED << reader, last, parent_delimiters, parent_is_done,
                              parent_stopped_at >>
    /\ UNCHANGED << parent_buf, lines_read, arrived, state, parent, parent_inactive,
                    read_line, handle_progress, pos, cap, call, lines, delivered,
                    progress, reset_calls, wrapped, verifier >>

\* mutant: stopped_at answers None in every state
stopped_at_AlwaysNone == "none"

\* stopped_at (100-105): a read of the parent's stop line that changes
\* nothing; "panic" stands for the unwrap() of an absent parent
stopped_at ==
    IF state = "Idle"
    THEN IF parent THEN parent_stopped_at ELSE "panic"
    ELSE "none"

\* what is left of a dropped reader: nothing but the state it was dropped
\* in, what its last call returned and the number of reset() calls
dropped ==
    /\ reader' = "dropped"
    /\ parent' = FALSE
    /\ parent_inactive' = FALSE
    /\ read_line' = "none"
    /\ handle_progress' = FALSE
    /\ pos' = 0
    /\ cap' = 0
    /\ lines' = << >>
    /\ delivered' = << >>
    /\ progress' = << >>
    /\ wrapped' = FALSE
    /\ requested' = { }
    /\ UNCHANGED << state, last >>

\* mutant: drop leaves the parent alone in Idle too
drop_NoReset ==
    /\ reader = "alive" /\ call = "none"
    /\ dropped
    /\ UNCHANGED << parent_vars, reset_calls, call, verifier >>

\* mutant: drop resets the parent in ReadLine too, through the pointer
drop_ResetsInReadLine ==
    /\ reader = "alive" /\ call = "none"
    /\ parent_reset
    /\ reset_calls' = reset_calls + 1
    /\ dropped
    /\ UNCHANGED << parent_buf, lines_read, arrived, call, verifier >>

\* Drop for WithSidebands (32-36).  In ReadLine the future goes with the
\* reader
drop ==
    /\ reader = "alive" /\ call = "none"
    /\ IF state = "Idle"
       THEN IF parent
            THEN /\ parent_reset
                 /\ reset_calls' = reset_calls + 1
                 /\ dropped
            ELSE /\ reader' = "panicked"
                 /\ last' = Ret("drop", "none", "Panic", "unwrap", 0)
                 /\ UNCHANGED << parent_delimiters, parent_is_done, parent_stopped_at,
                                 reset_calls, state, parent, parent_inactive, read_line,
                                 handle_progress, pos, cap, lines, delivered, progress,
                                 wrapped, requested >>
       ELSE /\ dropped
            /\ UNCHANGED << parent_delimiters, parent_is_done, parent_stopped_at,
                            reset_calls >>
    /\ UNCHANGED << parent_buf, lines_read, arrived, call, verifier >>

SidebandNext ==
    \/ new
    \/ with_progress_handler
    \/ without_progress_handler
    \/ Arrive
    \/ poll_fill_buf
    \/ poll_read
    \/ read_line_poll
    \/ IdleArm
    \/ ReadLineArm
    \/ consume
    \/ set_progress_handler
    \/ reset_with
    \/ drop

SidebandSpec == SidebandInit /\ [][SidebandNext]_vars

(***************************************************************************)
(* Vocabulary of the properties of the sideband reader.                     *)
(***************************************************************************)
Alive == reader = "alive"
\* every line so far was obtained with a handler installed
AlwaysHandled == \A k \in 1 .. Len(lines) : lines[k].handler
\* every line so far was obtained without a handler
NeverHandled == \A k \in 1 .. Len(lines) : ~lines[k].handler
\* the not yet consumed bytes of the window
Rest == IF pos < cap THEN slice(parent_buf, pos, cap) ELSE << >>
\* the band byte of an obtained line, 0 for a line without data
BandOf(l) == IF l.line.kind = "Data" THEN l.line.data[1] ELSE 0
\* the payloads of the band-1 lines among ls, concatenated in order
RECURSIVE DataPayloads(_)
DataPayloads(ls) ==
    IF ls = << >> THEN << >>
    ELSE (IF BandOf(Head(ls)) = 1 THEN Tail(Head(ls).line.data) ELSE << >>)
         \o DataPayloads(Tail(ls))
\* the last poll function returned Ready(Ok(..)) at the end of the stream
AtEof == /\ call = "none" /\ last.poll = "Ready" /\ last.kind = "Ok"
         /\ parent_is_done /\ pos = 0 /\ cap = 0

(***************************************************************************)
(* C12: while every line was obtained with a progress handler installed     *)
(* and no consume wrapped around in usize,                                  *)
(* the bytes delivered to the caller followed by the unconsumed rest of     *)
(* the window are the payloads of the band-1 lines obtained so far, in      *)
(* order and without their band bytes; a non-empty window lies at           *)
(* [4+1, 4+1+payload_len) of the buffer holding the band-1 line obtained    *)
(* last.  At end of file the rest is empty, so the delivered bytes are      *)
(* exactly the band-1 payloads.                                             *)
(***************************************************************************)
C12_DeliveredIsDataBand ==
    (Alive /\ AlwaysHandled /\ ~wrapped) =>
      /\ delivered \o Rest = DataPayloads(lines)
      /\ pos < cap =>
           /\ lines # << >>
           /\ BandOf(lines[Len(lines)]) = 1
           /\ parent_buf = line_buf(lines[Len(lines)].line)
           /\ pos >= U16_HEX_BYTES + 1
           /\ cap = U16_HEX_BYTES + 1 + Len(Tail(lines[Len(lines)].line.data))

\* a progress line and a data line were read with a handler, the payload
\* was consumed and the stream has ended
C12_Witness ==
    /\ Alive /\ AlwaysHandled /\ ~wrapped /\ AtEof
    /\ Len(lines) = 2
    /\ BandOf(lines[1]) = 2 /\ BandOf(lines[2]) = 1
    /\ delivered = TextPayload(MaxPayload)
    /\ Len(progress) = 1

\* the lines obtained with a handler installed that carry band 2 or band 3
SideLines == { k \in 1 .. Len(lines) : lines[k].handler /\ BandOf(lines[k]) \in { 2, 3 } }

(***************************************************************************)
(* C13: the calls of the progress handler are, in order, one call for each  *)
(* band-2 or band-3 line obtained with a handler installed, with is_error   *)
(* false for band 2 and true for band 3 and with the line's payload; the    *)
(* call is made in the step that obtains the line, so before any later      *)
(* line is looked at, and that step stays inside the poll function with     *)
(* the reader in Idle: it returns nothing to the caller.                    *)
(***************************************************************************)
C13_HandlerOncePerSideLine ==
    /\ [](Alive =>
            /\ Len(progress) = Cardinality(SideLines)
            /\ \A j \in 1 .. Len(progress) :
                 /\ progress[j].at \in SideLines
                 /\ j > 1 => progress[j - 1].at < progress[j].at
                 /\ progress[j].is_error = (BandOf(lines[progress[j].at]) = 3)
                 /\ progress[j].text = Tail(lines[progress[j].at].line.data))
    /\ [][(Alive /\ progress' # progress /\ progress' # << >>) =>
            /\ Len(progress') = Len(progress) + 1
            /\ progress'[Len(progress')].at = Len(lines')
            /\ call # "none" /\ call' = call
            /\ state' = "Idle" /\ parent'
            /\ last' = last /\ pos' = pos /\ cap' = cap]_vars

\* a progress line and then an error line were passed to the handler before
\* the stream ended
C13_Witness ==
    /\ Alive /\ AtEof
    /\ Len(progress) = 2
    /\ ~progress[1].is_error /\ progress[2].is_error
    /\ progress[1].at = 1 /\ progress[2].at = 2

\* the data of the Data lines among ls, concatenated in order
RECURSIVE WholeLines(_)
WholeLines(ls) ==
    IF ls = << >> THEN << >>
    ELSE (IF Head(ls).line.kind = "Data" THEN Head(ls).line.data ELSE << >>)
         \o WholeLines(Tail(ls))
\* this step obtains a line from the parent
ObtainsLine == Len(lines') = Len(lines) + 1

(***************************************************************************)
(* C14: while every line was obtained with no handler installed, no         *)
(* handler call is made and, unless a consume wrapped around in usize,      *)
(* the bytes delivered followed by the rest of                              *)
(* the window are the Data lines obtained so far, whole, first byte         *)
(* included; a non-empty window lies at [4, 4+len) of the buffer holding    *)
(* the Data line obtained last.  The step that obtains a line that is no    *)
(* Data line returns Ready(Err) of kind UnexpectedEof from the poll         *)
(* function and leaves the window as it was.                                *)
(***************************************************************************)
C14_DataOnlyMode ==
    /\ []((Alive /\ NeverHandled) =>
            /\ progress = << >>
            /\ ~wrapped => delivered \o Rest = WholeLines(lines)
            /\ (~wrapped /\ pos < cap) =>
                 /\ lines # << >>
                 /\ lines[Len(lines)].line.kind = "Data"
                 /\ parent_buf = line_buf(lines[Len(lines)].line)
                 /\ pos >= U16_HEX_BYTES
                 /\ cap = U16_HEX_BYTES + Len(lines[Len(lines)].line.data))
    /\ [][(ObtainsLine /\ ~handle_progress /\ lines'[Len(lines')].line.kind # "Data") =>
            /\ last' = Ret(call, "Ready", "Err", "UnexpectedEof", 0)
            /\ call' = "none" /\ reader' = "alive"
            /\ pos' = pos /\ cap' = cap /\ delivered' = delivered]_vars

\* a line starting with the byte of the progress band was delivered whole,
\* and the delim line after it made the call fail
C14_Witness ==
    /\ Alive /\ NeverHandled /\ ~wrapped /\ call = "none"
    /\ Len(lines) = 2
    /\ lines[1].line = DataLine(<< 2 >> \o TextPayload(MaxPayload))
    /\ delivered = lines[1].line.data
    /\ lines[2].line = Delim
    /\ last = Ret("fill_buf", "Ready", "Err", "UnexpectedEof", 0)

\* the reader holds the parent: State::Idle { parent: Some(_) } and no future
ReaderHoldsParent ==
    state = "Idle" /\ parent /\ read_line = "none" /\ ~parent_inactive
\* the read_line future holds the parent and the reader only the pointer
FutureHoldsParent ==
    state = "ReadLine" /\ ~parent /\ read_line # "none" /\ parent_inactive
\* the messages of the two expect() calls of poll_fill_buf's loop
ExpectMessages == { "parent to be present here", "parent pointer always set" }

(***************************************************************************)
(* C15: a live reader is either in Idle holding the parent, with no read    *)
(* future, or in ReadLine where the future holds the parent and the reader  *)
(* only the pointer parent_inactive.  The pointer is taken only in the      *)
(* step from ReadLine to Idle that puts the parent back, or goes with the   *)
(* dropped reader; and neither expect() of the loop ever panics.            *)
(***************************************************************************)
C15_OneHolderOfParent ==
    /\ [](/\ Alive => (ReaderHoldsParent \/ FutureHoldsParent)
          /\ ~(last.kind = "Panic" /\ last.error \in ExpectMessages))
    /\ [][(parent_inactive /\ ~parent_inactive') =>
            \/ reader' = "dropped"
            \/ /\ state = "ReadLine" /\ read_line # "none"
               /\ state' = "Idle" /\ parent' /\ read_line' = "none"]_vars

\* after one line was read and the parent was handed back, a second read is
\* suspended
C15_Witness ==
    /\ Alive /\ FutureHoldsParent
    /\ read_line = "pending" /\ call = "none"
    /\ Len(lines) = 1

\* this step is a poll function returning Poll::Pending
ReturnsPending == call # "none" /\ call' = "none" /\ last'.poll = "Pending"
\* this step creates a read_line future
CreatesRead == read_line' = "created" /\ read_line # "created"

(***************************************************************************)
(* C16: a poll function returns Pending only with the reader in ReadLine    *)
(* and its future suspended, and the reader stays so until it is polled     *)
(* again; a read_line future is created only when none exists, from Idle    *)
(* with the parent present and an exhausted window (pos >= cap).            *)
(***************************************************************************)
C16_SuspendsOnlyInReadLine ==
    /\ []((Alive /\ call = "none" /\ last.poll = "Pending") =>
            (state = "ReadLine" /\ read_line = "pending"))
    /\ [][/\ ReturnsPending => (state' = "ReadLine" /\ read_line' = "pending")
          /\ CreatesRead => /\ read_line = "none" /\ state = "Idle" /\ parent
                            /\ pos >= cap /\ call # "none"]_vars

\* a read was suspended after a progress line had been handled
C16_Witness ==
    /\ Alive /\ call = "none"
    /\ last = Ret("read", "Pending", "", "", 0)
    /\ state = "ReadLine"
    /\ Len(progress) = 1

\* this step is a call of consume that returns
ConsumeStep ==
    /\ Alive /\ reader' = "alive"
    /\ call = "none" /\ call' = "none"
    /\ last' = last /\ pos' # pos

(***************************************************************************)
(* C17: consume(n) moves pos to min(pos + n, cap) for every n of usize: it  *)
(* does not panic, pos never moves back and never passes cap, and a         *)
(* non-empty window lies inside the line the parent's buffer holds.  The    *)
(* code adds amt to pos in usize before it takes the minimum, and the       *)
(* formula is violated by consume(usize::MAX) with pos > 0.                 *)
(***************************************************************************)
C17_Original ==
    /\ []((Alive /\ pos < cap) => cap <= Len(parent_buf))
    /\ [](last.op = "consume" => last.kind # "Panic")
    /\ [][ConsumeStep => IF pos <= cap THEN pos < pos' /\ pos' <= cap
                                       ELSE pos' = cap]_vars

\* a call failed and left an exhausted window behind, the parent's buffer
\* holds a shorter line, and consume(usize::MAX) moved pos back below cap:
\* the window now reaches past the line in the buffer
C17_WindowOutsideLine ==
    /\ Alive /\ wrapped /\ call = "none"
    /\ pos < cap
    /\ cap > Len(parent_buf)

PollFunctions == { "fill_buf", "read", "read_line" }

(***************************************************************************)
(* C18: fill_buf, read and read_line never panic: whatever they fail on,    *)
(* they return Ready(Err(io::Error)).  In particular the step that obtains  *)
(* a Data line whose first byte is no band, with a handler installed,       *)
(* returns an error, and so does read_line on a line that is no UTF-8.      *)
(* The code unwraps the result of from_utf8 in ReadLineFuture::poll, and    *)
(* the formula is violated by read_line over a band-1 line whose payload    *)
(* is no UTF-8.                                                             *)
(***************************************************************************)
C18_Original ==
    /\ [](last.op \in PollFunctions => last.kind # "Panic")
    /\ [][(ObtainsLine /\ handle_progress /\ ~decode_band(lines'[Len(lines')].line).ok) =>
            /\ last' = Ret(call, "Ready", "Err", "Other", 0)
            /\ call' = "none" /\ reader' = "alive"]_vars

\* read_line obtained a band-1 line whose payload is no UTF-8 and panicked
\* in unwrap()
C18_Utf8Panics ==
    /\ reader = "panicked"
    /\ last = Ret("read_line", "Ready", "Panic", "unwrap", 0)
    /\ lines # << >>
    /\ lines[Len(lines)].line = DataLine(<< 1, NonUtf8 >>)
    /\ lines[Len(lines)].handler

\* the parent as an iterator that was never wrapped has it: not stopped
ParentClean == ~parent_is_done /\ parent_stopped_at = "none"
Dropped == reader = "dropped"

(***************************************************************************)
(* C19: whenever a reader has been dropped, in Idle or in ReadLine, fresh,  *)
(* after lines, after an error or at the end of the stream, the parent is   *)
(* not stopped and records no stop line, as a parent that was never         *)
(* wrapped; the reader constructed next holds it in Idle with an empty      *)
(* window.  The delimiters handed over by reset_with stay with the parent.  *)
(***************************************************************************)
C19_DropLeavesParentClean ==
    /\ [](Dropped => ParentClean)
    /\ [][(Dropped /\ reader' = "alive") =>
            /\ ParentClean'
            /\ ReaderHoldsParent' /\ pos' = 0 /\ cap' = 0
            /\ UNCHANGED parent_vars]_vars

\* a reader read a line and was dropped while its second read was suspended
C19_Witness ==
    /\ Dropped /\ state = "ReadLine"
    /\ last.poll = "Pending"
    /\ lines_read = 1 /\ parent_buf # << >>

(***************************************************************************)
(* C20: a drop in Idle calls parent.reset() once, after which the parent    *)
(* is not stopped and records no stop line; a drop in ReadLine makes no     *)
(* call and leaves the parent as it is; and drop never panics.              *)
(***************************************************************************)
C20_DropResetsOnlyInIdle ==
    /\ [](last.op = "drop" => last.kind # "Panic")
    /\ [](Dropped => reset_calls = (IF state = "Idle" THEN 1 ELSE 0))
    /\ [][(Alive /\ reader' # "alive") =>
            /\ reader' = "dropped" \/ last'.op # "drop"
            /\ reader' = "dropped" =>
                 IF state = "Idle"
                 THEN reset_calls' = reset_calls + 1 /\ ParentClean'
                 ELSE reset_calls' = reset_calls /\ UNCHANGED parent_vars]_vars

\* the stream ended at its flush line, fill_buf returned the empty slice,
\* and the reader was dropped in Idle
C20_Witness ==
    /\ Dropped /\ state = "Idle"
    /\ reset_calls = 1
    /\ last = Ret("fill_buf", "Ready", "Ok", "", 0)
    /\ lines_read = 1 /\ parent_buf = << >>
    /\ ParentClean

(***************************************************************************)
(* C21: the delimiters of the reader's last reset_with call are the         *)
(* parent's delimiters, whatever the state the call was made in, and        *)
(* stopped_at() is the stop line the parent records.  In ReadLine           *)
(* reset_with does nothing, and the formula is violated by a reset_with     *)
(* made after a poll returned Pending.                                      *)
(***************************************************************************)
C21_Original ==
    (Alive /\ call = "none") =>
      /\ requested # { } => parent_delimiters = requested
      /\ stopped_at = parent_stopped_at

\* a poll returned Pending, reset_with(&[Flush, Delimiter]) was called, and
\* the parent still stops at Flush only
C21_ResetWithIgnored ==
    /\ Alive /\ call = "none"
    /\ state = "ReadLine" /\ last.poll = "Pending"
    /\ requested = { "Flush", "Delim" }
    /\ parent_delimiters = { "Flush" }

\* the last poll function returned Ready(Ok(..)) with nothing in it
ReturnedEmpty == call = "none" /\ last.poll = "Ready" /\ last.kind = "Ok" /\ last.n = 0
\* this step is the parent's read ending at one of its delimiters
ParentStops == ~parent_is_done /\ parent_is_done'

(***************************************************************************)
(* C22: when the parent's read yields None because a delimiter line was     *)
(* reached, the poll function returns Ready(Ok) with nothing (fill_buf the  *)
(* empty slice, read and read_line 0 bytes), the window is (0, 0), the      *)
(* reader is in Idle holding the parent, and stopped_at() is the delimiter  *)
(* that ended the stream; the same holds for every later poll until a       *)
(* reset.                                                                   *)
(***************************************************************************)
C22_EofExposesTerminator ==
    /\ [](AtEof =>
            /\ last.n = 0 /\ ReaderHoldsParent
            /\ stopped_at = parent_stopped_at
            /\ stopped_at \in parent_delimiters)
    /\ [][(Alive /\ (ParentStops \/ (parent_is_done /\ call # "none" /\ call' = "none"))) =>
            /\ AtEof' /\ last'.op = call
            /\ UNCHANGED << delivered, lines, progress >>]_vars

\* with Flush and Delimiter as delimiters the stream ended at a Delimiter
\* line after a data line had been read
C22_Witness ==
    /\ Alive /\ AtEof /\ last.op = "fill_buf"
    /\ stopped_at = "Delim"
    /\ lines # << >>

\* the per-pack loop ran over every name of index_names
AllPacksProcessed == Done /\ pack_id = num_indices

(***************************************************************************)
(* C23: whenever every pack of index_names was processed without error,     *)
(* the number of entries examined is num_objects and the run ends with an   *)
(* outcome: the assertion after the per-pack loop does not fail.  The       *)
(* formula is violated by a MIDX whose offset table names a pack id that    *)
(* is no position of index_names: its entries are in no slice.              *)
(***************************************************************************)
C23_Original ==
    AllPacksProcessed =>
      /\ total_objects_checked = num_objects
      /\ Succeeded

\* a deep verification opened and verified every bundle, examined no entry
\* at all because every pack id is out of range, and panicked
C23_NoEntryExamined ==
    /\ AllPacksProcessed /\ deep_check
    /\ result = Panic("assert_eq")
    /\ Cardinality({ k \in EventsOf("verify") : events[k].what = "Ok" }) = num_indices
    /\ EventsOf("check") = { }
    /\ total_objects_checked = 0 /\ num_objects >= 1

\* the Entry Plan was built: the oid order phase ended without error
PlanBuilt == pack_ids_and_offsets # << >>
\* the entries of the plan that name pack p, in the plan's order
RECURSIVE OfPack(_, _)
OfPack(plan, p) ==
    IF plan = << >> THEN << >>
    ELSE (IF Head(plan)[1] = p THEN << Head(plan) >> ELSE << >>) \o OfPack(Tail(plan), p)
\* multi_index_entries_to_check is the slice of the pack now processed
SliceTaken == pc \in { "entries", "poll", "bundle" }

(***************************************************************************)
(* C24: for every num_objects >= 1, one included, the Entry Plan holds      *)
(* each entry index 0 .. num_objects - 1 once, paired with the pack id of   *)
(* that entry; it ascends by pack id, and entries of one pack id ascend by  *)
(* entry index; and the slice taken for pack p is the entries of the plan   *)
(* whose pack id is p, which are the entries the MIDX assigns to p.         *)
(***************************************************************************)
C24_PlanIsStablePermutation ==
    /\ (Entered("order") /\ ~Failed("OutOfOrder") /\ pc # "order") => PlanBuilt
    /\ PlanBuilt =>
         /\ num_objects >= 1
         /\ Len(pack_ids_and_offsets) = num_objects
         /\ \A i \in 0 .. (num_objects - 1) :
              Cardinality({ k \in 1 .. num_objects : pack_ids_and_offsets[k][2] = i }) = 1
         /\ \A k \in 1 .. num_objects :
              pack_ids_and_offsets[k][1] = entry_pack_ids[pack_ids_and_offsets[k][2] + 1]
         /\ \A j, k \in 1 .. num_objects :
              j < k =>
                \/ pack_ids_and_offsets[j][1] < pack_ids_and_offsets[k][1]
                \/ /\ pack_ids_and_offsets[j][1] = pack_ids_and_offsets[k][1]
                   /\ pack_ids_and_offsets[j][2] < pack_ids_and_offsets[k][2]
    /\ SliceTaken =>
         /\ entries_to_check = OfPack(pack_ids_and_offsets, pack_id)
         /\ { entries_to_check[k][2] : k \in 1 .. Len(entries_to_check) }
              = EntriesOfPack(pack_id)

\* three entries, the first and the last in pack 1 and the middle one in
\* pack 0: the plan is no identity, and the slice of pack 1 is being walked
C24_Witness ==
    /\ num_objects = 3
    /\ entry_pack_ids = << 1, 0, 1 >>
    /\ pack_ids_and_offsets = << << 0, 1 >>, << 1, 0 >>, << 1, 2 >> >>
    /\ pc = "entries" /\ pack_id = 1
    /\ entries_to_check = << << 1, 0 >>, << 1, 2 >> >>

\* the variants of integrity::Error that verify_integrity_inner constructs
\* itself
IntegrityErrors == { "MultiIndexChecksum", "Fan", "Empty", "OutOfOrder", "BundleInit",
                     "OidNotFound", "PackOffsetMismatch", "Interrupted" }

(***************************************************************************)
(* C29: verify_integrity_fast never ends in the unreachable!() of its       *)
(* error mapping: every error verify_integrity_inner returns with           *)
(* deep_check = false is the Processor variant, which the caller receives   *)
(* as the integrity::Error inside it, whenever should_interrupt is set.     *)
(***************************************************************************)
C29_FastErrorsAreProcessor ==
    (Done /\ ~deep_check) =>
      /\ result # Panic("unreachable")
      /\ result.status = "err" =>
           /\ result.variant = "Integrity"
           /\ result.error \in IntegrityErrors
      /\ \A k \in 1 .. Len(events) : events[k].ev # "verify"

\* the fast path was interrupted at the poll that follows the entries of
\* the second pack
C29_Witness ==
    /\ Done /\ ~deep_check
    /\ result.status = "err" /\ result.error = "Interrupted"
    /\ result.variant = "Integrity"
    /\ LastEvent.ev = "poll" /\ LastEvent.pack = 1

\* this step is poll_fill_buf returning Ready(Ok(&[])) from its loop
FillBufReturnsEmpty ==
    /\ call = "fill_buf" /\ call' = "none"
    /\ last'.poll = "Ready" /\ last'.kind = "Ok" /\ last'.n = 0

(***************************************************************************)
(* C25: poll_fill_buf, called with an exhausted window, returns the empty   *)
(* slice only when the parent reported the end of the stream.  The formula  *)
(* is violated by a band-1 line with an empty payload read with a handler   *)
(* installed: its window is (5, 5), and the empty slice is returned with    *)
(* lines still to come.                                                     *)
(***************************************************************************)
C25_Original ==
    [][FillBufReturnsEmpty => (parent_is_done' /\ pos' = 0 /\ cap' = 0)]_vars

\* fill_buf returned the empty slice for the band-1 line without payload,
\* the first line of the stream; the parent is not done
C25_EmptyBeforeEof ==
    /\ Alive /\ call = "none"
    /\ last = Ret("fill_buf", "Ready", "Ok", "", 0)
    /\ ~parent_is_done /\ parent_stopped_at = "none"
    /\ lines = << Obtained(DataLine(<< 1 >>), TRUE) >>
    /\ pos = U16_HEX_BYTES + ENCODED_BAND /\ cap = pos
    /\ lines_read = 1

\* the line obtained in this step
NewLine == lines'[Len(lines')]
\* the line obtained in this step goes to the handler
IsSideLine(l) == l.handler /\ BandOf(l) \in { 2, 3 }

(***************************************************************************)
(* C26: the lines a reader obtains are appended to what it obtained         *)
(* before, in the order the parent reads them, and the parent's buffer      *)
(* changes only when a line is obtained.  After a poll returned Pending     *)
(* the read it polled is still there, and a suspended read stays the        *)
(* reader's read until a poll completes it after the line arrived: no       *)
(* other read is created meanwhile.  The step that obtains a line either    *)
(* calls the handler with it once and stays in the loop with the window     *)
(* unchanged, or leaves the loop: with the line in the parent's buffer as   *)
(* the window, or with an error when it has no band or, without handler,    *)
(* is no data line; never both, and no handler call is made in any other    *)
(* step.                                                                    *)
(***************************************************************************)
C26_FifoAcrossSuspension ==
    /\ []((Alive /\ call = "none" /\ last.poll = "Pending") => read_line = "pending")
    /\ [][(Alive /\ reader' # "dropped") =>
            /\ lines' = lines \/ (ObtainsLine /\ SubSeq(lines', 1, Len(lines)) = lines)
            /\ parent_buf' # parent_buf => ObtainsLine]_vars
    /\ [][(Alive /\ read_line = "pending" /\ reader' # "dropped") =>
            /\ ~CreatesRead
            /\ read_line' = "pending" \/ (read_line' = "none" /\ arrived /\ call # "none")
            /\ read_line' = "pending" => UNCHANGED << parent_buf, lines_read, lines >>]_vars
    /\ [][(Alive /\ reader' # "dropped" /\ progress' # progress) =>
            ObtainsLine /\ IsSideLine(NewLine)]_vars
    /\ [][ObtainsLine =>
            /\ parent_buf' = line_buf(NewLine.line)
            /\ IF IsSideLine(NewLine)
               THEN /\ progress' = Append(progress,
                                     HandlerCall(BandOf(NewLine) = 3,
                                                 Text(Tail(NewLine.line.data)), Len(lines')))
                    /\ UNCHANGED << call, pos, cap, delivered, last >>
               ELSE /\ progress' = progress
                    /\ call' = "none" /\ last'.op = call
                    /\ last'.kind = "Ok" =>
                         /\ cap' = IF call = "read_line" THEN 0 ELSE Len(parent_buf')
                         /\ ~wrapped => delivered' \o Rest' = delivered \o
                              (IF NewLine.handler THEN Tail(NewLine.line.data)
                               ELSE NewLine.line.data)
                    /\ last'.kind = "Err" =>
                         /\ IF NewLine.handler THEN ~decode_band(NewLine.line).ok
                            ELSE NewLine.line.kind # "Data"
                         /\ UNCHANGED << pos, cap, delivered >>]_vars

\* a read was suspended, resumed by a poll that passed a progress line to
\* the handler, suspended again, and resumed with a data line in the window
C26_Witness ==
    /\ Alive /\ call = "none" /\ ~wrapped
    /\ Len(lines) = 2 /\ Len(progress) = 1 /\ progress[1].at = 1
    /\ BandOf(lines[2]) = 1 /\ lines[2].handler
    /\ last = Ret("fill_buf", "Ready", "Ok", "", MaxPayload)
    /\ parent_buf = line_buf(lines[2].line)

\* this step is ReadLineFuture::poll returning Ready(Ok(n))
ReadLineCompletes == call = "read_line" /\ call' = "none" /\ last'.kind = "Ok"
\* what a reader with or without handler exposes of a data line
Exposed(l) == IF l.handler THEN Tail(l.line.data) ELSE l.line.data

(***************************************************************************)
(* C27: as long as the poll function that returned last is read_line, or    *)
(* none has returned yet, cap is 0: read_line finds cap = 0 whatever it     *)
(* returned before (a line, end of file, an error or Pending) and whatever  *)
(* progress lines it skipped, and its assertion fails only after a          *)
(* poll_fill_buf or poll_read returned.  A read_line that completes sets    *)
(* cap to 0 and returns either the next data line of the stream, whole, or  *)
(* 0 bytes at the end of the stream.                                        *)
(***************************************************************************)
C27_ReadLineKeepsCapZero ==
    /\ []((Alive /\ call = "none" /\ last.op \in { "read_line", "none" }) => cap = 0)
    /\ [](call = "read_line" => cap = 0)
    /\ [][(last' # last /\ last'.error = "assert_eq") =>
            (last.op \in { "fill_buf", "read" } /\ cap # 0)]_vars
    /\ [][ReadLineCompletes =>
            /\ cap' = 0
            /\ IF ObtainsLine
               THEN /\ NewLine.line.kind = "Data"
                    /\ last'.n = Len(Exposed(NewLine))
                    /\ ~wrapped => delivered' = delivered \o Exposed(NewLine)
               ELSE /\ parent_is_done' /\ last'.n = 0
                    /\ delivered' = delivered]_vars

\* read_line was suspended, skipped a progress line and returned the data
\* line after it; nothing else was delivered by this reader
C27_Witness ==
    /\ Alive /\ ~wrapped
    /\ last = Ret("read_line", "Ready", "Ok", "", MaxPayload)
    /\ Len(lines) = 2
    /\ BandOf(lines[1]) = 2 /\ Len(progress) = 1
    /\ delivered = Tail(lines[2].line.data)
    /\ cap = 0

\* this step is a poll function returning Ready with a value or an error
ReturnsReady ==
    /\ call # "none" /\ call' = "none"
    /\ last'.poll = "Ready" /\ last'.kind \in { "Ok", "Err" }

(***************************************************************************)
(* C28: a reader in ReadLine has pos >= cap, a poll function that returns   *)
(* Ready leaves the reader in Idle holding the parent, and no call ends in  *)
(* the unreachable!() of poll_fill_buf.  The formula is violated by a       *)
(* consume whose pos + amt wraps around in usize while a read is            *)
(* suspended: pos drops below cap, and the next poll skips the loop and     *)
(* finds the reader in ReadLine.                                            *)
(***************************************************************************)
C28_Original ==
    /\ []((Alive /\ state = "ReadLine") => pos >= cap)
    /\ [](last.error # "unreachable")
    /\ [][ReturnsReady => ReaderHoldsParent']_vars

\* poll_fill_buf panicked in unreachable!(): a read was suspended with the
\* window (5, 5) used up, consume(usize::MAX) left pos at 4
C28_UnreachableReached ==
    /\ reader = "panicked"
    /\ last = Ret("fill_buf", "Ready", "Panic", "unreachable", 0)
    /\ state = "ReadLine" /\ read_line = "pending"
    /\ wrapped /\ pos < cap
    /\ pos = U16_HEX_BYTES /\ cap = U16_HEX_BYTES + ENCODED_BAND

(***************************************************************************)
(* The sideband reader with its scheduling.  The code of a running poll     *)
(* function goes on (the two arms of the loop); the line a suspended read   *)
(* waits for arrives; and a caller whose poll returned Pending polls        *)
(* again.  Nothing makes a caller start a call, consume or drop.  The       *)
(* stream is read up to its terminator: the caller makes no reset_with,     *)
(* which would let the parent read on past it.                              *)
(***************************************************************************)
Repoll == state = "ReadLine" /\ (poll_fill_buf \/ poll_read \/ read_line_poll)
\* one iteration of the loop of poll_fill_buf
Loop == IdleArm \/ ReadLineArm

LiveNext ==
    \/ new
    \/ with_progress_handler
    \/ without_progress_handler
    \/ Arrive
    \/ poll_fill_buf
    \/ poll_read
    \/ read_line_poll
    \/ IdleArm
    \/ ReadLineArm
    \/ consume
    \/ set_progress_handler
    \/ drop

SidebandLive ==
    /\ SidebandInit /\ [][LiveNext]_vars
    /\ WF_vars(Loop)
    /\ WF_vars(Arrive)
    /\ WF_vars(Repoll)

\* a poll function entered the loop of poll_fill_buf or is suspended in it
InLoop == Alive /\ (call # "none" \/ state = "ReadLine")
\* the poll function returned Ready: a window, the end of the stream or an
\* error
ReturnedReady ==
    /\ call = "none" /\ state = "Idle"
    /\ last.poll = "Ready" /\ last.kind \in { "Ok", "Err" }

(***************************************************************************)
(* C30: a poll function that entered the loop of poll_fill_buf on an        *)
(* exhausted window, or is suspended in it, eventually returns Ready with   *)
(* a window, the end of the stream or an error, the reader back in Idle,    *)
(* unless the caller drops the reader or a call panics: the loop over       *)
(* progress and error lines ends, and the reader does not stay in ReadLine. *)
(***************************************************************************)
C30_LoopTerminates == InLoop ~> (ReturnedReady \/ ~Alive)

\* the loop ended at the flush line after it had handled MaxReads progress
\* lines
C30_Witness ==
    /\ Alive /\ ReturnedReady /\ AtEof
    /\ last.op = "fill_buf"
    /\ Len(progress) = MaxReads /\ Len(lines) = MaxReads

====
